---- MODULE Spec2Model ----
(***************************************************************************)
(* A model of the iCapture coordination layer:                             *)
(*   - FrameSynchronizer      (backend/modules/frame_sync.py)              *)
(*   - ViolationManager and its verifier / deduplicator                    *)
(*                            (backend/modules/violation_logic.py)         *)
(*   - the persistence stage  (backend/app.py, logging_loop)               *)
(*                                                                         *)
(* Time is a discrete clock `now` (the value time.time() returns); every   *)
(* duration of the program is expressed in ticks of that clock.  The       *)
(* configured durations (sync tolerance, buffer max age, verification      *)
(* window, duplicate window) are scaled down to a few ticks; the order     *)
(* relations the code relies on are kept (tolerance < max age,             *)
(* verification window < duplicate window).                                *)
(***************************************************************************)
EXTENDS Integers, Sequences, FiniteSets, TLC

(***************************************************************************)
(* Bounds of the model                                                     *)
(***************************************************************************)
\* last value of the clock
MaxTime == 4
\* number of frames handed to add_frame over a run
MaxFrames == 4
\* number of get_synchronized_pair calls over a run
MaxCalls == 2

(***************************************************************************)
(* Configuration of the synchronizer (in ticks / frames)                   *)
(***************************************************************************)
\* FrameSynchronizer.sync_tolerance (SYNC_TOLERANCE_MS = 100), in ticks
sync_tolerance == 1
\* BUFFER_MAX_AGE_SECONDS (2.0 s), in ticks
BUFFER_MAX_AGE == 3
\* FrameSynchronizer.buffer_size (default 30), in frames
buffer_size == 2
\* the timeout arguments get_synchronized_pair is called with, in ticks
Timeouts == {0, 1, 2}

VARIABLES
    now,            \* time.time()
    wide_buffer,    \* FrameSynchronizer.wide_buffer  (oldest first)
    plate_buffer,   \* FrameSynchronizer.plate_buffer (oldest first)
    sync_stats,     \* FrameSynchronizer.stats
    sync_lock,      \* FrameSynchronizer.lock: "free" or "reader"
    frames_added,   \* number of frames created so far (identity of a frame)
    sync_pc,        \* position of the thread inside get_synchronized_pair
    start_time,     \* get_synchronized_pair: start_time (0 outside a call)
    timeout,        \* get_synchronized_pair: timeout argument (0 outside a call)
    calls,          \* number of get_synchronized_pair calls started
    pair,           \* the value the last get_synchronized_pair returned
    delivered       \* every FramePair returned so far, in order

sync_vars == <<wide_buffer, plate_buffer, sync_stats, sync_lock, frames_added,
               sync_pc, start_time, timeout, calls, pair, delivered>>

VARIABLES
    detection_buffer,   \* ConsecutiveFrameVerifier.detection_buffer
    recent_violations,  \* DuplicationChecker.recent_violations
    db,                 \* the rows of the violations table, in insertion order
    vm_stats,           \* ViolationManager.stats
    log_pc,             \* position of logging_loop inside one iteration
    detection,          \* logging_loop: detection
    decision,           \* logging_loop: decision
    violation_id        \* logging_loop: violation_id (0 is None, -1 is unbound)

engine_vars == <<detection_buffer, recent_violations, db, vm_stats, log_pc,
                 detection, decision, violation_id>>

VARIABLES
    frame_queue,          \* app.frame_queue, oldest pair first (pairs by sequence id)
    ai_processing_queue,  \* app.ai_processing_queue, oldest result first
    capture_pc,           \* position of frame_capture_loop inside its push
    capture_pair,         \* frame_capture_loop: pair (0 is None)
    pairs_captured,       \* number of pairs the synchronizer has handed out
    frame_count,          \* frame_capture_loop: frame_count
    ai_pc,                \* position of ai_processing_loop
    ai_pair,              \* ai_processing_loop: pair (0 before the first get)
    processing_count,     \* ai_processing_loop: processing_count
    discarded,            \* history: the items lost to a full queue, in order
    logging_pc,           \* position of logging_loop
    errors                \* history: iterations of each stage ended by its except clause

pipe_vars == <<frame_queue, ai_processing_queue, capture_pc, capture_pair,
               pairs_captured, frame_count, ai_pc, ai_pair, processing_count,
               discarded, logging_pc, errors>>

VARIABLES
    retry_pc,      \* position inside retry_on_db_error's wrapper
    retry_func,    \* the decorated function being called, with the decorator's arguments
    attempt,       \* wrapper: attempt
    invocations,   \* what the database did on each invocation of func, in order
    sleeps,        \* the delays handed to time.sleep, in order
    retry_result   \* how the wrapper ended: the value returned or the exception raised

retry_vars == <<retry_pc, retry_func, attempt, invocations, sleeps,
                retry_result>>

VARIABLES
    sessions       \* every use of get_db_session: where it is, its transaction,
                   \* the exception in flight, the number of session.close() calls

session_vars == <<sessions>>

VARIABLES
    processing_active,  \* app.processing_active
    threads,            \* where each stage thread of each start_processing call is
    starts,             \* number of start_processing calls that started threads
    stop_pc,            \* position of the request thread inside stop_processing
    last_call,          \* the last start_processing / stop_processing call and its value
    stop_returned       \* stop_processing has returned True and nothing was started since

life_vars == <<processing_active, threads, starts, stop_pc, last_call,
               stop_returned>>

\* what the thread management leaves alone besides the two queues
pipe_locals == <<capture_pc, capture_pair, pairs_captured, frame_count, ai_pc,
                 ai_pair, processing_count, discarded, logging_pc, errors>>

VARIABLES
    stats,              \* FrameSynchronizer.stats, the dict the attribute refers to
    stats_id,           \* which dict object self.stats refers to
    lock_owner,         \* the thread inside `with self.lock`, or "free"
    stat_pc,            \* where each thread is in its access to the counters
    stat_ref,           \* the dict object and the value a thread loaded for `+= 1`
    timeouts_returned,  \* calls of get_synchronized_pair that have returned None
    resets              \* calls of reset_stats that have returned

stat_vars == <<stats, stats_id, lock_owner, stat_pc, stat_ref,
               timeouts_returned, resets>>

VARIABLES
    call_pc,        \* where each thread is inside process_detection
    call_detection, \* process_detection: detection, per calling thread
    call_decision   \* the dict process_detection returned last, per calling thread

call_vars == <<call_pc, call_detection, call_decision>>

vars == <<now, sync_vars, engine_vars, pipe_vars, retry_vars, session_vars, life_vars, stat_vars, call_vars>>

(***************************************************************************)
(* Frames and pairs                                                        *)
(***************************************************************************)
\* TimestampedFrame: id stands for the object (and its own ndarray: the
\* capture manager hands out a fresh copy per frame), timestamp for
\* time.time() at add_frame.
TimestampedFrame(id, ts, camera_type) ==
    [id |-> id, timestamp |-> ts, camera_type |-> camera_type]

\* Python's None where a frame is expected
NoFrame == [id |-> 0, timestamp |-> -1, camera_type |-> "None"]

\* FramePair built without the is_synchronized argument: the field keeps the
\* dataclass default, True
FramePairDefaultSync(wide, plate, ts, sync) ==
    [kind |-> "pair", wide_frame |-> wide, plate_frame |-> plate,
     timestamp |-> ts, is_synchronized |-> TRUE]

\* FramePair; None (no pair returned) is the record of kind "None".
FramePair(wide, plate, ts, sync) ==
    [kind |-> "pair", wide_frame |-> wide, plate_frame |-> plate,
     timestamp |-> ts, is_synchronized |-> sync]

NoPair ==
    [kind |-> "None", wide_frame |-> NoFrame, plate_frame |-> NoFrame,
     timestamp |-> -1, is_synchronized |-> FALSE]

Abs(x) == IF x < 0 THEN -x ELSE x

Last(s) == s[Len(s)]

Front(s) == SubSeq(s, 1, Len(s) - 1)

\* a deque without maxlen
DequeAppendUnbounded(buffer, x, maxlen) == Append(buffer, x)

\* deque(maxlen=n).append(x): the oldest element is discarded when full
DequeAppend(buffer, x, maxlen) ==
    IF Len(buffer) >= maxlen
    THEN Append(SubSeq(buffer, Len(buffer) - maxlen + 2, Len(buffer)), x)
    ELSE Append(buffer, x)

(***************************************************************************)
(* FrameSynchronizer                                                       *)
(***************************************************************************)
\* _cleanup_old_frames on one buffer: popleft while the oldest frame is
\* older than BUFFER_MAX_AGE
RECURSIVE CleanupBuffer(_, _)
CleanupBuffer(buffer, current_time) ==
    IF buffer # <<>> /\ (current_time - Head(buffer).timestamp) > BUFFER_MAX_AGE
    THEN CleanupBuffer(Tail(buffer), current_time)
    ELSE buffer

\* the loop with `time_diff <= best_diff`: the last of the closest frames
RECURSIVE FindLoopLatestTie(_, _, _, _)
FindLoopLatestTie(buffer, target_timestamp, best_match, best_diff) ==
    IF buffer = <<>> THEN best_match
    ELSE LET frame == Head(buffer)
             time_diff == Abs(frame.timestamp - target_timestamp)
         IN  IF time_diff <= sync_tolerance
                /\ (best_diff = -1 \/ time_diff <= best_diff)
             THEN FindLoopLatestTie(Tail(buffer), target_timestamp, frame, time_diff)
             ELSE FindLoopLatestTie(Tail(buffer), target_timestamp, best_match, best_diff)

\* _find_matching_frame: the loop over the buffer, carrying best_match and
\* best_diff (best_match = NoFrame stands for None, best_diff = -1 for inf)
RECURSIVE FindLoop(_, _, _, _)
FindLoop(buffer, target_timestamp, best_match, best_diff) ==
    IF buffer = <<>> THEN best_match
    ELSE LET frame == Head(buffer)
             time_diff == Abs(frame.timestamp - target_timestamp)
         IN  IF time_diff <= sync_tolerance
                /\ (best_diff = -1 \/ time_diff < best_diff)
             THEN FindLoop(Tail(buffer), target_timestamp, frame, time_diff)
             ELSE FindLoop(Tail(buffer), target_timestamp, best_match, best_diff)

\* the loop with the tolerance test left out: the closest frame, however far
RECURSIVE FindLoopNoTolerance(_, _, _, _)
FindLoopNoTolerance(buffer, target_timestamp, best_match, best_diff) ==
    IF buffer = <<>> THEN best_match
    ELSE LET frame == Head(buffer)
             time_diff == Abs(frame.timestamp - target_timestamp)
         IN  IF best_diff = -1 \/ time_diff < best_diff
             THEN FindLoopNoTolerance(Tail(buffer), target_timestamp, frame, time_diff)
             ELSE FindLoopNoTolerance(Tail(buffer), target_timestamp, best_match, best_diff)

find_matching_frame_NoTolerance(target_timestamp, buffer) ==
    IF buffer = <<>> THEN NoFrame
    ELSE FindLoopNoTolerance(buffer, target_timestamp, NoFrame, -1)

\* the loop with the tolerance test made strict (time_diff < sync_tolerance)
RECURSIVE FindLoopStrict(_, _, _, _)
FindLoopStrict(buffer, target_timestamp, best_match, best_diff) ==
    IF buffer = <<>> THEN best_match
    ELSE LET frame == Head(buffer)
             time_diff == Abs(frame.timestamp - target_timestamp)
         IN  IF time_diff < sync_tolerance
                /\ (best_diff = -1 \/ time_diff < best_diff)
             THEN FindLoopStrict(Tail(buffer), target_timestamp, frame, time_diff)
             ELSE FindLoopStrict(Tail(buffer), target_timestamp, best_match, best_diff)

find_matching_frame_Strict(target_timestamp, buffer) ==
    IF buffer = <<>> THEN NoFrame
    ELSE FindLoopStrict(buffer, target_timestamp, NoFrame, -1)

_find_matching_frame(target_timestamp, buffer) ==
    IF buffer = <<>> THEN NoFrame
    ELSE FindLoop(buffer, target_timestamp, NoFrame, -1)

\* TimestampedFrame.__eq__ as deque.remove evaluates it on an element and the
\* searched value: the same object compares equal without calling __eq__;
\* for two objects the dataclass __eq__ compares the ndarray fields, and the
\* truth value of an elementwise comparison of two frames raises ValueError.
FrameCompare(item, value) ==
    IF item.id = value.id THEN "equal" ELSE "ValueError"

\* self.plate_buffer.remove(plate_frame) inside try/except ValueError: pass.
\* The scan starts at the oldest element; the first comparison that raises
\* ends the scan and leaves the buffer as it is.
RECURSIVE DequeRemove(_, _)
DequeRemove(buffer, value) ==
    IF buffer = <<>> THEN buffer
    ELSE IF FrameCompare(Head(buffer), value) = "equal" THEN Tail(buffer)
    ELSE buffer

\* the condition of the degraded return: the plate buffer is empty or the
\* wide-angle frame's age, wide_frame.age(), exceeds the tolerance
ShouldDegradeAgeInclusive(plate, wide_frame) ==
    Len(plate) = 0 \/ (now - wide_frame.timestamp) >= sync_tolerance

ShouldDegrade(plate, wide_frame) ==
    Len(plate) = 0 \/ (now - wide_frame.timestamp) > sync_tolerance

\* add_frame(frame, camera_type): frame is never None here
AddFrame(camera_type) ==
    /\ frames_added < MaxFrames
    /\ sync_lock = "free"
    /\ LET timestamped == TimestampedFrame(frames_added + 1, now, camera_type)
       IN  /\ frames_added' = frames_added + 1
           /\ IF camera_type = "wide_angle"
              THEN /\ wide_buffer' = DequeAppend(wide_buffer, timestamped, buffer_size)
                   /\ UNCHANGED plate_buffer
              ELSE /\ plate_buffer' = DequeAppend(plate_buffer, timestamped, buffer_size)
                   /\ UNCHANGED wide_buffer
    /\ UNCHANGED <<now, sync_stats, sync_lock, sync_pc, start_time, timeout,
                   calls, pair, delivered>>
    /\ UNCHANGED <<engine_vars, pipe_vars, retry_vars, session_vars, life_vars, stat_vars, call_vars>>

\* get_synchronized_pair(timeout): entry, start_time = time.time()
CallGet(t) ==
    /\ sync_pc = "idle"
    /\ calls < MaxCalls
    /\ calls' = calls + 1
    /\ start_time' = now
    /\ timeout' = t
    /\ sync_pc' = "while"
    /\ UNCHANGED <<now, wide_buffer, plate_buffer, sync_stats, sync_lock,
                   frames_added, pair, delivered>>
    /\ UNCHANGED <<engine_vars, pipe_vars, retry_vars, session_vars, life_vars, stat_vars, call_vars>>

\* a loop that goes round once more when the elapsed time equals the timeout
LoopAgainInclusive(elapsed, t) == elapsed <= t

\* the loop condition of get_synchronized_pair
LoopAgain(elapsed, t) == elapsed < t

\* while (time.time() - start_time) < timeout: ... ; after the loop the call
\* counts a sync failure and returns None
LoopTest ==
    /\ sync_pc = "while"
    /\ IF LoopAgain(now - start_time, timeout)
       THEN /\ sync_pc' = "poll"
            /\ UNCHANGED <<sync_stats, pair, start_time, timeout>>
       ELSE /\ sync_pc' = "idle"
            /\ sync_stats' = [sync_stats EXCEPT !.sync_failures = @ + 1]
            /\ pair' = NoPair
            /\ start_time' = 0
            /\ timeout' = 0
    /\ UNCHANGED <<now, wide_buffer, plate_buffer, sync_lock, frames_added,
                   calls, delivered>>
    /\ UNCHANGED <<engine_vars, pipe_vars, retry_vars, session_vars, life_vars, stat_vars, call_vars>>

\* One pass of the loop body under the lock: cleanup, then match, degrade,
\* or leave the buffers for the next pass.
Poll ==
    /\ sync_pc = "poll"
    /\ sync_lock = "free"
    /\ LET wide == CleanupBuffer(wide_buffer, now)
           plate == CleanupBuffer(plate_buffer, now)
           dropped == (Len(wide_buffer) - Len(wide)) + (Len(plate_buffer) - Len(plate))
           stats1 == [sync_stats EXCEPT !.dropped_old_frames = @ + dropped]
       IN  IF wide = <<>>
           THEN \* time.sleep(0.01) inside the with block, then continue
                /\ wide_buffer' = wide
                /\ plate_buffer' = plate
                /\ sync_stats' = stats1
                /\ sync_lock' = "reader"
                /\ sync_pc' = "sleep_locked"
                /\ UNCHANGED <<pair, delivered, start_time, timeout>>
           ELSE LET wide_frame == Last(wide)
                    plate_frame == _find_matching_frame(wide_frame.timestamp, plate)
                IN  IF plate_frame # NoFrame
                    THEN LET p == FramePair(wide_frame, plate_frame,
                                            wide_frame.timestamp, TRUE)
                         IN  /\ wide_buffer' = Front(wide)
                             /\ plate_buffer' = DequeRemove(plate, plate_frame)
                             /\ sync_stats' = [stats1 EXCEPT !.pairs_created = @ + 1]
                             /\ pair' = p
                             /\ delivered' = Append(delivered, p)
                             /\ sync_pc' = "idle"
                             /\ start_time' = 0
                             /\ timeout' = 0
                             /\ UNCHANGED sync_lock
                    ELSE IF ShouldDegrade(plate, wide_frame)
                    THEN LET p == FramePair(wide_frame, NoFrame,
                                            wide_frame.timestamp, FALSE)
                         IN  /\ wide_buffer' = Front(wide)
                             /\ plate_buffer' = plate
                             /\ sync_stats' = [stats1 EXCEPT !.wide_only = @ + 1]
                             /\ pair' = p
                             /\ delivered' = Append(delivered, p)
                             /\ sync_pc' = "idle"
                             /\ start_time' = 0
                             /\ timeout' = 0
                             /\ UNCHANGED sync_lock
                    ELSE /\ wide_buffer' = wide
                         /\ plate_buffer' = plate
                         /\ sync_stats' = stats1
                         /\ sync_pc' = "sleep"
                         /\ UNCHANGED <<sync_lock, pair, delivered,
                                        start_time, timeout>>
    /\ UNCHANGED <<now, frames_added, calls>>
    /\ UNCHANGED <<engine_vars, pipe_vars, retry_vars, session_vars, life_vars, stat_vars, call_vars>>

\* the sleep taken with the lock held ends: the with block is left, continue
WakeLocked ==
    /\ sync_pc = "sleep_locked"
    /\ sync_lock' = "free"
    /\ sync_pc' = "while"
    /\ UNCHANGED <<now, wide_buffer, plate_buffer, sync_stats, frames_added,
                   start_time, timeout, calls, pair, delivered>>
    /\ UNCHANGED <<engine_vars, pipe_vars, retry_vars, session_vars, life_vars, stat_vars, call_vars>>

\* time.sleep(0.01) after the with block ends
Wake ==
    /\ sync_pc = "sleep"
    /\ sync_pc' = "while"
    /\ UNCHANGED <<now, wide_buffer, plate_buffer, sync_stats, sync_lock,
                   frames_added, start_time, timeout, calls, pair, delivered>>
    /\ UNCHANGED <<engine_vars, pipe_vars, retry_vars, session_vars, life_vars, stat_vars, call_vars>>

\* the clock advances
Tick ==
    /\ now < MaxTime
    /\ now' = now + 1
    /\ UNCHANGED <<sync_vars, engine_vars, pipe_vars, retry_vars, session_vars, life_vars, stat_vars, call_vars>>

InitSync ==
    /\ wide_buffer = <<>>
    /\ plate_buffer = <<>>
    /\ sync_stats = [pairs_created |-> 0, wide_only |-> 0, sync_failures |-> 0,
                     dropped_old_frames |-> 0]
    /\ sync_lock = "free"
    /\ frames_added = 0
    /\ sync_pc = "idle"
    /\ start_time = 0
    /\ timeout = 0
    /\ calls = 0
    /\ pair = NoPair
    /\ delivered = <<>>

(***************************************************************************)
(* Violation decision engine and persistence stage                         *)
(***************************************************************************)
\* number of process_detection calls over a run
MaxDetections == 4
\* ConsecutiveFrameVerifier.required_frames (config 'consecutive_frames': 3)
required_frames == 2
\* ConsecutiveFrameVerifier.time_window (5.0 s), in ticks
verification_window == 2
\* DuplicationChecker.time_window (config 'duplicate_window': 60), in ticks
duplicate_window == 3

\* Python's None as a plate number
NoPlate == "None"

\* None as a violation code or a violation id
NoCode == 0

\* the local violation_id of logging_loop before log_violation has returned
Unbound == -1

\* the values generate_violation_code can draw (random.randint(1000, 9999))
Codes == {1000, 1001}

\* the plate numbers the recognizer reports
PlateNumbers == {"ABC-1234", "XYZ-5678", NoPlate}

\* what the detector reports: the class and the confidence, in hundredths
\* (below a rule's threshold, at it, above it, and a class without a rule)
DetectorOutputs ==
    { <<"no_helmet", 59>>, <<"no_helmet", 60>>, <<"nutshell_helmet", 95>>,
      <<"with_helmet", 95>> }

\* the detections handed to process_detection: Detection.violation_type,
\* Detection.confidence, Detection.plate_number
Detections ==
    { [violation_type |-> o[1], confidence |-> o[2], plate_number |-> p] :
        o \in DetectorOutputs, p \in PlateNumbers }

\* the value of `detection` before the first iteration
NoDetection ==
    [violation_type |-> "None", confidence |-> 0, plate_number |-> NoPlate]

\* get_violation_manager: rules = [NoHelmetRule(0.6), NutshellHelmetRule(0.6)]
Rules ==
    << [violation_type |-> "no_helmet", min_confidence |-> 60],
       [violation_type |-> "nutshell_helmet", min_confidence |-> 60] >>

\* a rule that looks at the category only
RuleEvaluateTypeOnly(rule, det) ==
    det.violation_type = rule.violation_type

\* NoHelmetRule.evaluate / NutshellHelmetRule.evaluate
RuleEvaluate(rule, det) ==
    /\ det.violation_type = rule.violation_type
    /\ det.confidence >= rule.min_confidence

\* ViolationManager._evaluate_rules: the index of the first matching rule,
\* 0 for None
_evaluate_rules(det) ==
    LET matching == {i \in DOMAIN Rules : RuleEvaluate(Rules[i], det)}
    IN  IF matching = {} THEN 0
        ELSE CHOOSE i \in matching : \A j \in matching : i <= j

\* every detection is tracked under one key
TrackingKeyShared(det) == "NO_PLATE_CAM-WA-001"

\* tracking_key = detection.plate_number or f"NO_PLATE_{camera_id}"
TrackingKey(det) ==
    IF det.plate_number # NoPlate THEN det.plate_number
    ELSE "NO_PLATE_CAM-WA-001"

\* the deque of a key, empty when add_detection is about to create it
BufferOf(buffers, tracking_key) ==
    IF tracking_key \in DOMAIN buffers THEN buffers[tracking_key] ELSE <<>>

\* ConsecutiveFrameVerifier.add_detection: the buffers after the append
AddDetection(buffers, tracking_key, t) ==
    [k \in DOMAIN buffers \cup {tracking_key} |->
        IF k = tracking_key
        THEN DequeAppend(BufferOf(buffers, tracking_key), t, required_frames)
        ELSE buffers[k]]

\* the value with the time span test made inclusive
VerifiedSpanInclusive(buffers, tracking_key) ==
    LET timestamps == buffers[tracking_key]
    IN  /\ Len(timestamps) >= required_frames
        /\ (Last(timestamps) - Head(timestamps)) <= verification_window

\* ConsecutiveFrameVerifier.add_detection: the value returned
Verified(buffers, tracking_key) ==
    LET timestamps == buffers[tracking_key]
    IN  /\ Len(timestamps) >= required_frames
        /\ (Last(timestamps) - Head(timestamps)) < verification_window

\* a reset that leaves the key's history in place
ResetNothing(buffers, tracking_key) == buffers

\* ConsecutiveFrameVerifier.reset
Reset(buffers, tracking_key) ==
    [k \in DOMAIN buffers \ {tracking_key} |-> buffers[k]]

\* DatabaseManager.check_recent_violation: COUNT(*) > 0 over the rows of the
\* plate not older than NOW() - window; a failed query is caught and
\* answers False
check_recent_violation(plate_number, window, query_ok) ==
    /\ query_ok
    /\ \E i \in DOMAIN db :
          /\ db[i].plate_number = plate_number
          /\ db[i].violation_datetime >= now - window

\* the in-memory test with the window one tick short
CacheHitShortWindow(plate_number) ==
    /\ plate_number \in DOMAIN recent_violations
    /\ (now - recent_violations[plate_number]) < duplicate_window - 1

\* DuplicationChecker.is_duplicate: the in-memory test
CacheHit(plate_number) ==
    /\ plate_number \in DOMAIN recent_violations
    /\ (now - recent_violations[plate_number]) < duplicate_window

\* DuplicationChecker.is_duplicate: the value returned
is_duplicate(plate_number, query_ok) ==
    IF plate_number = NoPlate THEN FALSE
    ELSE \/ CacheHit(plate_number)
         \/ check_recent_violation(plate_number, duplicate_window, query_ok)

\* the cache entry of a plate set to the current time
CacheSet(cache, plate_number) ==
    [k \in DOMAIN cache \cup {plate_number} |->
        IF k = plate_number THEN now ELSE cache[k]]

\* the cache written on every call, whatever the detection carries
CacheAfterCheckAlways(plate_number, query_ok) ==
    CacheSet(recent_violations, plate_number)

\* DuplicationChecker.is_duplicate: recent_violations after the call (a hit
\* in the database refreshes the entry with the current time)
CacheAfterCheck(plate_number, query_ok) ==
    IF /\ plate_number # NoPlate
       /\ ~CacheHit(plate_number)
       /\ check_recent_violation(plate_number, duplicate_window, query_ok)
    THEN CacheSet(recent_violations, plate_number)
    ELSE recent_violations

\* mark_logged that forgets to record the plate
MarkLoggedNothing(cache, plate_number) == cache

\* DuplicationChecker.mark_logged
MarkLoggedCache(cache, plate_number) ==
    IF plate_number # NoPlate THEN CacheSet(cache, plate_number) ELSE cache

\* a decision dict whose violation_code is filled in whatever the outcome
DecisionCodeAlways(should_log, reason, code, violation_type) ==
    [should_log |-> should_log, reason |-> reason, violation_code |-> 1000,
     violation_type |-> violation_type]

\* the decision dict of process_detection
Decision(should_log, reason, code, violation_type) ==
    [should_log |-> should_log, reason |-> reason, violation_code |-> code,
     violation_type |-> violation_type]

\* the value of `decision` before the first iteration
NoDecision == Decision(FALSE, "None", NoCode, "None")

\* a row of the violations table (inserted_by tells the rows of this run
\* from those a prior process instance left)
Row(plate_number, violation_type, code, inserted_by) ==
    [plate_number |-> plate_number, violation_type |-> violation_type,
     violation_code |-> code, violation_datetime |-> now,
     inserted_by |-> inserted_by]

\* ViolationManager.process_detection, called by logging_loop on the result
\* it took from the queue.  The store answers the duplicate query (or fails
\* to) when is_duplicate is reached, and generate_violation_code draws the
\* code when the detection has passed the three gates.
ProcessDetection(det) ==
    /\ log_pc = "get"
    /\ vm_stats.total_detections < MaxDetections
    /\ detection' = det
    /\ LET matching_rule == _evaluate_rules(det)
           tracking_key == TrackingKey(det)
           buffers == AddDetection(detection_buffer, tracking_key, now)
           stats1 == [vm_stats EXCEPT !.total_detections = @ + 1]
       IN  IF matching_rule = 0
           THEN /\ decision' = Decision(FALSE, "No rule matched", NoCode, "None")
                /\ vm_stats' = stats1
                /\ log_pc' = "get"
                /\ UNCHANGED <<detection_buffer, recent_violations>>
           ELSE IF ~Verified(buffers, tracking_key)
           THEN /\ decision' = Decision(FALSE, "Verification pending", NoCode, "None")
                /\ vm_stats' = [stats1 EXCEPT !.verification_pending = @ + 1]
                /\ detection_buffer' = buffers
                /\ log_pc' = "get"
                /\ UNCHANGED recent_violations
           ELSE \E query_ok \in BOOLEAN :
                IF det.plate_number # NoPlate /\ is_duplicate(det.plate_number, query_ok)
                THEN /\ decision' = Decision(FALSE, "Duplicate", NoCode, "None")
                     /\ vm_stats' = [stats1 EXCEPT !.duplicates_prevented = @ + 1]
                     /\ detection_buffer' = Reset(buffers, tracking_key)
                     /\ recent_violations' = CacheAfterCheck(det.plate_number, query_ok)
                     /\ log_pc' = "get"
                ELSE \E code \in Codes :
                     /\ decision' = Decision(TRUE, "Violation confirmed", code,
                                             Rules[matching_rule].violation_type)
                     /\ vm_stats' = stats1
                     /\ detection_buffer' = buffers
                     /\ recent_violations' = CacheAfterCheck(det.plate_number, query_ok)
                     /\ log_pc' = "log"
    /\ UNCHANGED <<now, sync_vars, pipe_vars, retry_vars, session_vars, life_vars, stat_vars, call_vars, db, violation_id>>

\* the save taken as successful whatever the repository returned
SaveSucceededAlways(id) == TRUE

\* ViolationManager.log_violation: `if violation_id:`
SaveSucceeded(id) == id # NoCode

\* logging_loop: evidence capture raises; the iteration ends in the handler
EvidenceError ==
    /\ log_pc = "log"
    /\ log_pc' = "get"
    /\ UNCHANGED <<now, sync_vars, pipe_vars, retry_vars, session_vars, life_vars, stat_vars, call_vars, detection_buffer, recent_violations, db,
                   vm_stats, detection, decision, violation_id>>

\* ViolationManager.log_violation: repository.save, i.e.
\* DatabaseManager.insert_violation, which issues a code of its own, stamps
\* the row with datetime.now() and returns the row id, or None on any error
Save(ok) ==
    /\ log_pc = "log"
    /\ IF ok
       THEN /\ \E code \in Codes :
                 db' = Append(db, Row(detection.plate_number,
                                      detection.violation_type, code, "run"))
            /\ violation_id' = Len(db) + 1
       ELSE /\ violation_id' = NoCode
            /\ UNCHANGED db
    /\ log_pc' = IF SaveSucceeded(violation_id') THEN "saved" ELSE "get"
    /\ UNCHANGED <<now, sync_vars, pipe_vars, retry_vars, session_vars, life_vars, stat_vars, call_vars, detection_buffer, recent_violations,
                   vm_stats, detection, decision>>

\* ViolationManager.log_violation after a successful save: count it and mark
\* the plate as logged
MarkLogged ==
    /\ log_pc = "saved"
    /\ vm_stats' = [vm_stats EXCEPT !.violations_logged = @ + 1]
    /\ recent_violations' = MarkLoggedCache(recent_violations, detection.plate_number)
    /\ log_pc' = "get"
    /\ UNCHANGED <<now, sync_vars, pipe_vars, retry_vars, session_vars, life_vars, stat_vars, call_vars, detection_buffer, db, detection, decision,
                   violation_id>>

\* the rows a prior process instance may have left in the table
PriorRows ==
    { <<>>,
      << [plate_number |-> "ABC-1234", violation_type |-> "no_helmet",
          violation_code |-> 1000, violation_datetime |-> 0,
          inserted_by |-> "prior"] >> }

InitEngine ==
    /\ detection_buffer = <<>>
    /\ recent_violations = <<>>
    /\ db \in PriorRows
    /\ vm_stats = [total_detections |-> 0, violations_logged |-> 0,
                   duplicates_prevented |-> 0, verification_pending |-> 0]
    /\ log_pc = "get"
    /\ detection = NoDetection
    /\ decision = NoDecision
    /\ violation_id = Unbound

(***************************************************************************)
(* The queues between the stages (backend/app.py)                          *)
(***************************************************************************)
\* frame_queue = queue.Queue(maxsize=10), in pairs
frame_queue_maxsize == 2
\* ai_processing_queue = queue.Queue(maxsize=5), in results
ai_queue_maxsize == 2
\* number of pairs the synchronizer hands the capture loop over a run
MaxPairs == 5
\* frame_count % 300 == 0: capture iterations between two FPS log lines
fps_log_interval == 3

\* `pair` when get_synchronized_pair returned None
NoItem == 0

\* a queue that hands out its newest item
QueueGetNewest(q) == Front(q)

\* queue.Queue.get_nowait on a non-empty queue: the queue without its
\* oldest item
QueueGet(q) == Tail(q)

\* frame_capture_loop: frame_count += 1, reset when the FPS line is logged
FrameCountNext(count) ==
    IF (count + 1) % fps_log_interval = 0 THEN 0 ELSE count + 1

\* a put that makes room by evicting the oldest result
AiQueueAfterPutEvict(q, item) ==
    IF Len(q) < ai_queue_maxsize THEN Append(q, item)
    ELSE Append(Tail(q), item)

\* ai_processing_loop: ai_processing_queue after put_nowait(ai_result); on
\* queue.Full the result is dropped with a warning
AiQueueAfterPut(q, item) ==
    IF Len(q) < ai_queue_maxsize THEN Append(q, item) ELSE q

\* an item lost to a full queue, and the stage that lost it
Discarded(item, stage) == [item |-> item, by |-> stage]

\* frame_capture_loop: an iteration in which get_synchronized_pair returned
\* None
CaptureNoPair ==
    /\ capture_pc = "loop"
    /\ capture_pair' = NoItem
    /\ frame_count' = FrameCountNext(frame_count)
    /\ UNCHANGED <<now, sync_vars, engine_vars, retry_vars, session_vars, life_vars, stat_vars, call_vars, frame_queue,
                   ai_processing_queue, capture_pc, pairs_captured, ai_pc,
                   ai_pair, processing_count, discarded>>
    /\ UNCHANGED <<logging_pc, errors>>

\* frame_capture_loop: an iteration in which a pair was returned;
\* frame_queue.put_nowait(pair) either succeeds, and the iteration ends, or
\* raises queue.Full
CapturePut ==
    /\ capture_pc = "loop"
    /\ pairs_captured < MaxPairs
    /\ pairs_captured' = pairs_captured + 1
    /\ capture_pair' = pairs_captured + 1
    /\ IF Len(frame_queue) < frame_queue_maxsize
       THEN /\ frame_queue' = Append(frame_queue, capture_pair')
            /\ frame_count' = FrameCountNext(frame_count)
            /\ UNCHANGED capture_pc
       ELSE /\ capture_pc' = "full"
            /\ UNCHANGED <<frame_queue, frame_count>>
    /\ UNCHANGED <<now, sync_vars, engine_vars, retry_vars, session_vars, life_vars, stat_vars, call_vars, ai_processing_queue, ai_pc,
                   ai_pair, processing_count, discarded>>
    /\ UNCHANGED <<logging_pc, errors>>

\* frame_capture_loop, in the queue.Full handler: frame_queue.get_nowait()
\* removes the oldest pair; on queue.Empty the handler passes, the new pair
\* is not queued and the iteration ends
CaptureEvict ==
    /\ capture_pc = "full"
    /\ IF frame_queue # <<>>
       THEN /\ frame_queue' = QueueGet(frame_queue)
            /\ discarded' = Append(discarded,
                                   Discarded(Head(frame_queue), "capture"))
            /\ capture_pc' = "reput"
            /\ UNCHANGED frame_count
       ELSE /\ discarded' = Append(discarded,
                                   Discarded(capture_pair, "capture"))
            /\ frame_count' = FrameCountNext(frame_count)
            /\ capture_pc' = "loop"
            /\ UNCHANGED frame_queue
    /\ UNCHANGED <<now, sync_vars, engine_vars, retry_vars, session_vars, life_vars, stat_vars, call_vars, ai_processing_queue,
                   capture_pair, pairs_captured, ai_pc, ai_pair,
                   processing_count>>
    /\ UNCHANGED <<logging_pc, errors>>

\* frame_capture_loop, in the queue.Full handler: frame_queue.put_nowait(pair)
\* after the eviction; a second queue.Full leaves the handler for the loop's
\* `except Exception`, which skips the rest of the iteration
CaptureReput ==
    /\ capture_pc = "reput"
    /\ IF Len(frame_queue) < frame_queue_maxsize
       THEN /\ frame_queue' = Append(frame_queue, capture_pair)
            /\ frame_count' = FrameCountNext(frame_count)
            /\ UNCHANGED discarded
       ELSE /\ discarded' = Append(discarded,
                                   Discarded(capture_pair, "capture"))
            /\ UNCHANGED <<frame_queue, frame_count>>
    /\ capture_pc' = "loop"
    /\ UNCHANGED <<now, sync_vars, engine_vars, retry_vars, session_vars, life_vars, stat_vars, call_vars, ai_processing_queue,
                   capture_pair, pairs_captured, ai_pc, ai_pair,
                   processing_count>>
    /\ UNCHANGED <<logging_pc, errors>>

\* ai_processing_loop: pair = frame_queue.get(timeout=1.0) returns the
\* oldest pair
AiGet ==
    /\ ai_pc = "get"
    /\ frame_queue # <<>>
    /\ ai_pair' = Head(frame_queue)
    /\ frame_queue' = QueueGet(frame_queue)
    /\ ai_pc' = "process"
    /\ UNCHANGED <<now, sync_vars, engine_vars, retry_vars, session_vars, life_vars, stat_vars, call_vars, ai_processing_queue,
                   capture_pc, capture_pair, pairs_captured, frame_count,
                   processing_count, discarded>>
    /\ UNCHANGED <<logging_pc, errors>>

\* ai_processing_loop: the rest of the iteration; when the detector reports
\* a violation the result is put on ai_processing_queue, or dropped if the
\* queue is full, and processing_count is incremented either way
AiProcess(has_violation) ==
    /\ ai_pc = "process"
    /\ IF has_violation
       THEN /\ ai_processing_queue' =
                   AiQueueAfterPut(ai_processing_queue, ai_pair)
            /\ discarded' =
                   IF Len(ai_processing_queue) < ai_queue_maxsize
                   THEN discarded
                   ELSE Append(discarded, Discarded(ai_pair, "inference"))
       ELSE UNCHANGED <<ai_processing_queue, discarded>>
    /\ processing_count' = processing_count + 1
    /\ ai_pc' = "get"
    /\ UNCHANGED <<now, sync_vars, engine_vars, retry_vars, session_vars, life_vars, stat_vars, call_vars, frame_queue, capture_pc,
                   capture_pair, pairs_captured, frame_count, ai_pair>>
    /\ UNCHANGED <<logging_pc, errors>>

\* logging_loop: result = ai_processing_queue.get(timeout=1.0) takes the
\* oldest result (what the loop does with it is ProcessDetection)
LoggingGet ==
    /\ logging_pc = "get"
    /\ ai_processing_queue # <<>>
    /\ ai_processing_queue' = QueueGet(ai_processing_queue)
    /\ logging_pc' = "process"
    /\ UNCHANGED errors
    /\ UNCHANGED <<now, sync_vars, engine_vars, retry_vars, session_vars, life_vars, stat_vars, call_vars, frame_queue, capture_pc,
                   capture_pair, pairs_captured, frame_count, ai_pc, ai_pair,
                   processing_count, discarded>>

\* logging_loop: the rest of the iteration returns (decision, evidence
\* capture, store: ProcessDetection, Save, MarkLogged)
LoggingProcess ==
    /\ logging_pc = "process"
    /\ logging_pc' = "get"
    /\ UNCHANGED <<now, sync_vars, engine_vars, retry_vars, session_vars,
                   life_vars, stat_vars, call_vars, frame_queue,
                   ai_processing_queue, capture_pc, capture_pair,
                   pairs_captured, frame_count, ai_pc, ai_pair,
                   processing_count, discarded, errors>>

\* iterations per stage that end in the except clause over a run
MaxErrors == 1

\* an except clause that lets the exception end the thread
AfterHandlerExits(loop_start) == "exited"

\* `except Exception as e: logger.error(...); time.sleep(0.1)` is the last
\* statement of the while body: control goes back to the loop test
AfterHandler(loop_start) == loop_start

\* frame_capture_loop: a call of the iteration raises (the capture manager,
\* the synchronizer); the rest of the iteration is skipped
CaptureRaises ==
    /\ capture_pc = "loop"
    /\ errors["capture"] < MaxErrors
    /\ errors' = [errors EXCEPT !["capture"] = @ + 1]
    /\ capture_pc' = "except"
    /\ UNCHANGED <<now, sync_vars, engine_vars, retry_vars, session_vars,
                   life_vars, stat_vars, call_vars, frame_queue,
                   ai_processing_queue, capture_pair, pairs_captured,
                   frame_count, ai_pc, ai_pair, processing_count, discarded,
                   logging_pc>>

\* ai_processing_loop: the detector or the recognizer raises on the pair
\* taken; neither task_done nor processing_count += 1 is reached
AiRaises ==
    /\ ai_pc = "process"
    /\ errors["inference"] < MaxErrors
    /\ errors' = [errors EXCEPT !["inference"] = @ + 1]
    /\ ai_pc' = "except"
    /\ UNCHANGED <<now, sync_vars, engine_vars, retry_vars, session_vars,
                   life_vars, stat_vars, call_vars, frame_queue,
                   ai_processing_queue, capture_pc, capture_pair,
                   pairs_captured, frame_count, ai_pair, processing_count,
                   discarded, logging_pc>>

\* logging_loop: the decision engine, the evidence capture or the store
\* raises on the result taken
LoggingRaises ==
    /\ logging_pc = "process"
    /\ errors["persistence"] < MaxErrors
    /\ errors' = [errors EXCEPT !["persistence"] = @ + 1]
    /\ logging_pc' = "except"
    /\ UNCHANGED <<now, sync_vars, engine_vars, retry_vars, session_vars,
                   life_vars, stat_vars, call_vars, frame_queue,
                   ai_processing_queue, capture_pc, capture_pair,
                   pairs_captured, frame_count, ai_pc, ai_pair,
                   processing_count, discarded>>

\* the except clause of a stage loop runs to its end
Handler(stage) ==
    /\ CASE stage = "capture" ->
              /\ capture_pc = "except"
              /\ capture_pc' = AfterHandler("loop")
              /\ UNCHANGED <<ai_pc, logging_pc>>
         [] stage = "inference" ->
              /\ ai_pc = "except"
              /\ ai_pc' = AfterHandler("get")
              /\ UNCHANGED <<capture_pc, logging_pc>>
         [] stage = "persistence" ->
              /\ logging_pc = "except"
              /\ logging_pc' = AfterHandler("get")
              /\ UNCHANGED <<capture_pc, ai_pc>>
    /\ UNCHANGED <<now, sync_vars, engine_vars, retry_vars, session_vars,
                   life_vars, stat_vars, call_vars, frame_queue,
                   ai_processing_queue, capture_pair, pairs_captured,
                   frame_count, ai_pair, processing_count, discarded, errors>>

InitPipeline ==
    /\ frame_queue = <<>>
    /\ ai_processing_queue = <<>>
    /\ capture_pc = "loop"
    /\ capture_pair = NoItem
    /\ pairs_captured = 0
    /\ frame_count = 0
    /\ ai_pc = "get"
    /\ ai_pair = NoItem
    /\ processing_count = 0
    /\ discarded = <<>>
    /\ logging_pc = "get"
    /\ errors = [stage \in {"capture", "inference", "persistence"} |-> 0]

(***************************************************************************)
(* The retry wrapper of the store (backend/modules/db_pool.py)             *)
(***************************************************************************)
\* largest max_retries argument of a decorator
MaxRetries == 3
\* the base_delay arguments, in tenths of a second (0.3 s and 0.5 s)
BaseDelays == {3, 5}

\* what one database operation can do: succeed, fail with a connection
\* error, fail with a data error (a DBAPIError that is not an
\* OperationalError), fail with an error outside SQLAlchemy
DbOutcomes == {"ok", "OperationalError", "IntegrityError", "ValueError"}

\* a function under @retry_on_db_error(max_retries, base_delay); guarded
\* tells whether its body is wrapped in `try: ... except Exception:`
Wrapped(name, max_retries, base_delay, guarded) ==
    [name |-> name, max_retries |-> max_retries, base_delay |-> base_delay,
     guarded |-> guarded]

\* the decorated functions of the repository that open a session, and a
\* plain function under each decorator argument
WrappedFunctions ==
    { Wrapped("execute_query", 3, 5, FALSE),
      Wrapped("insert_violation", 3, 5, TRUE),
      Wrapped("update_camera_stats", 2, 3, TRUE) }
    \cup { Wrapped("func", n, b, FALSE) : n \in 0..MaxRetries, b \in BaseDelays }

\* retry_func while no wrapper is running
NoFunc == Wrapped("None", 0, 0, FALSE)

\* what the wrapper sees of an invocation: a guarded function catches every
\* exception of its body and returns None; any other function returns its
\* value or lets the exception through
FuncOutcome(func, db_outcome) ==
    IF db_outcome = "ok" THEN "value"
    ELSE IF func.guarded THEN "None"
    ELSE db_outcome

\* every database exception taken as worth a retry
RetriableAnyDbError(outcome) ==
    outcome \in {"OperationalError", "IntegrityError"}

\* wrapper: `except exc.OperationalError` is the only clause that does not
\* re-raise
Retriable(outcome) == outcome = "OperationalError"

\* a delay that does not grow
BackoffConstant(base_delay, n) == base_delay

\* wrapper: delay = base_delay * (2 ** attempt)
Backoff(base_delay, n) == base_delay * (2 ^ n)

\* a loop that goes round once more
LoopContinuesOnceMore(n, max_retries) == n <= max_retries

\* wrapper: for attempt in range(max_retries)
LoopContinues(n, max_retries) == n < max_retries

\* how a wrapper call ended
Result(kind, value, cause) == [kind |-> kind, value |-> value, cause |-> cause]

\* retry_result while the wrapper has not ended
NoResult == Result("none", "None", "None")

\* a call of a decorated function: the wrapper starts its loop, or, with
\* nothing to iterate over, raises DatabaseRetryError at once
RetryCall(func) ==
    /\ retry_pc = "idle"
    /\ retry_func' = func
    /\ attempt' = 0
    /\ IF LoopContinues(0, func.max_retries)
       THEN /\ retry_pc' = "call"
            /\ UNCHANGED retry_result
       ELSE /\ retry_pc' = "raised"
            /\ retry_result' = Result("exception", "DatabaseRetryError", "None")
    /\ UNCHANGED <<now, sync_vars, engine_vars, pipe_vars, session_vars, life_vars, stat_vars, call_vars, invocations, sleeps>>

\* wrapper: return func(*args, **kwargs) and the except clauses
Invoke(db_outcome) ==
    /\ retry_pc = "call"
    /\ invocations' = Append(invocations, db_outcome)
    /\ LET outcome == FuncOutcome(retry_func, db_outcome)
       IN  IF outcome \in {"value", "None"}
           THEN /\ retry_pc' = "returned"
                /\ retry_result' = Result("value", outcome, "None")
           ELSE IF Retriable(outcome)
           THEN /\ retry_pc' = "sleep"
                /\ UNCHANGED retry_result
           ELSE /\ retry_pc' = "raised"
                /\ retry_result' = Result("exception", outcome, "None")
    /\ UNCHANGED <<now, sync_vars, engine_vars, pipe_vars, session_vars, life_vars, stat_vars, call_vars, retry_func, attempt,
                   sleeps>>

\* wrapper: time.sleep(delay) returns; the loop takes its next attempt or,
\* exhausted, raises DatabaseRetryError from last_exception
Sleep ==
    /\ retry_pc = "sleep"
    /\ sleeps' = Append(sleeps, Backoff(retry_func.base_delay, attempt))
    /\ attempt' = attempt + 1
    /\ IF LoopContinues(attempt + 1, retry_func.max_retries)
       THEN /\ retry_pc' = "call"
            /\ UNCHANGED retry_result
       ELSE /\ retry_pc' = "raised"
            /\ retry_result' = Result("exception", "DatabaseRetryError",
                                      "OperationalError")
    /\ UNCHANGED <<now, sync_vars, engine_vars, pipe_vars, session_vars, life_vars, stat_vars, call_vars, retry_func,
                   invocations>>

InitRetry ==
    /\ retry_pc = "idle"
    /\ retry_func = NoFunc
    /\ attempt = 0
    /\ invocations = <<>>
    /\ sleeps = <<>>
    /\ retry_result = NoResult

(***************************************************************************)
(* The session context manager (backend/modules/db_pool.py)                *)
(***************************************************************************)
\* number of uses of get_db_session over a run (they may nest or overlap:
\* each use has a session of its own)
MaxSessions == 2

Sessions == 1..MaxSessions

\* how the body of a `with get_db_session()` block, or session.commit(),
\* can end: normally, or with an exception
SessionOutcomes == {"ok", "IntegrityError", "OperationalError", "ValueError"}

\* a use of get_db_session
Session(pc, tx, exception, raised_by, closes) ==
    [pc |-> pc, tx |-> tx, exception |-> exception, raised_by |-> raised_by,
     closes |-> closes]

\* a use that has not started
NoSession == Session("new", "none", "None", "None", 0)

\* only the database exceptions are answered with a rollback
RollsBackDbErrorsOnly(exception) ==
    exception \in {"IntegrityError", "OperationalError"}

\* get_db_session: the three except clauses (IntegrityError,
\* OperationalError, Exception) each call session.rollback() and re-raise
RollsBack(exception) ==
    \/ exception = "IntegrityError"
    \/ exception = "OperationalError"
    \/ exception \in SessionOutcomes \ {"ok"}

\* get_db_session: session = SessionLocal(); the body of the with block
\* starts with the session's transaction
SessionEnter(s) ==
    /\ sessions[s].pc = "new"
    /\ sessions' = [sessions EXCEPT ![s] =
                        Session("body", "active", "None", "None", 0)]
    /\ UNCHANGED <<now, sync_vars, engine_vars, pipe_vars, retry_vars, life_vars, stat_vars, call_vars>>

\* the body of the with block ends: control returns to the generator after
\* `yield session`, normally or with the body's exception
SessionBody(s, outcome) ==
    /\ sessions[s].pc = "body"
    /\ sessions' = [sessions EXCEPT ![s] =
                        IF outcome = "ok"
                        THEN [@ EXCEPT !.pc = "commit"]
                        ELSE [@ EXCEPT !.pc = "except", !.exception = outcome,
                                       !.raised_by = "body"]]
    /\ UNCHANGED <<now, sync_vars, engine_vars, pipe_vars, retry_vars, life_vars, stat_vars, call_vars>>

\* get_db_session: session.commit() succeeds or raises
SessionCommit(s, outcome) ==
    /\ sessions[s].pc = "commit"
    /\ sessions' = [sessions EXCEPT ![s] =
                        IF outcome = "ok"
                        THEN [@ EXCEPT !.pc = "finally", !.tx = "committed"]
                        ELSE [@ EXCEPT !.pc = "except", !.exception = outcome,
                                       !.raised_by = "commit"]]
    /\ UNCHANGED <<now, sync_vars, engine_vars, pipe_vars, retry_vars, life_vars, stat_vars, call_vars>>

\* get_db_session: the except clause that matches the exception
SessionExcept(s) ==
    /\ sessions[s].pc = "except"
    /\ sessions' = [sessions EXCEPT ![s] =
                        IF RollsBack(@.exception)
                        THEN [@ EXCEPT !.pc = "finally", !.tx = "rolled_back"]
                        ELSE [@ EXCEPT !.pc = "finally"]]
    /\ UNCHANGED <<now, sync_vars, engine_vars, pipe_vars, retry_vars, life_vars, stat_vars, call_vars>>

\* get_db_session: finally: session.close(); control leaves the context,
\* with the exception if one is in flight
SessionFinally(s) ==
    /\ sessions[s].pc = "finally"
    /\ sessions' = [sessions EXCEPT ![s] =
                        [@ EXCEPT !.pc = "done", !.closes = @ + 1]]
    /\ UNCHANGED <<now, sync_vars, engine_vars, pipe_vars, retry_vars, life_vars, stat_vars, call_vars>>

InitSession == sessions = [s \in Sessions |-> NoSession]

(***************************************************************************)
(* Thread management (backend/app.py, start_processing / stop_processing)  *)
(***************************************************************************)
\* number of start_processing calls that start threads over a run
MaxStarts == 2

Stages == {"capture", "inference", "persistence"}

\* the threads start_processing creates: one per stage and per call
Threads == Stages \X (1..MaxStarts)

\* a frame pair or a result in a queue, whichever it is
SomeItem == 1

\* put_nowait with the capture stage's drop-oldest answer to queue.Full
PushDropOldest(q, item, maxsize) ==
    IF Len(q) < maxsize THEN Append(q, item) ELSE Append(Tail(q), item)

\* a get that waits for an item without a timeout
AfterEmptyGetBlocks == "body"

\* queue.get(timeout=1.0) on an empty queue: queue.Empty after the timeout,
\* `continue`, and the loop tests the flag again
AfterEmptyGet == "test"

\* start_processing while processing_active is True: return False
StartRefused ==
    /\ stop_pc = "idle"
    /\ processing_active
    /\ last_call # <<"start", FALSE>>
    /\ last_call' = <<"start", FALSE>>
    /\ UNCHANGED <<now, sync_vars, engine_vars, pipe_vars, retry_vars,
                   session_vars, stat_vars, call_vars, processing_active, threads, starts, stop_pc,
                   stop_returned>>

\* start_processing: set the flag and start one thread per stage
StartProcessing ==
    /\ stop_pc = "idle"
    /\ ~processing_active
    /\ starts < MaxStarts
    /\ processing_active' = TRUE
    /\ starts' = starts + 1
    /\ threads' = [t \in Threads |->
                      IF t[2] = starts + 1 THEN "test" ELSE threads[t]]
    /\ last_call' = <<"start", TRUE>>
    /\ stop_returned' = FALSE
    /\ UNCHANGED <<now, sync_vars, engine_vars, pipe_vars, retry_vars,
                   session_vars, stat_vars, call_vars, stop_pc>>

\* stop_processing: return False when not active, else clear the flag
StopBegin ==
    /\ stop_pc = "idle"
    /\ IF ~processing_active
       THEN /\ last_call # <<"stop", FALSE>>
            /\ last_call' = <<"stop", FALSE>>
            /\ UNCHANGED <<processing_active, stop_pc>>
       ELSE /\ processing_active' = FALSE
            /\ stop_pc' = "join_capture"
            /\ UNCHANGED last_call
    /\ UNCHANGED <<now, sync_vars, engine_vars, pipe_vars, retry_vars,
                   session_vars, stat_vars, call_vars, threads, starts, stop_returned>>

\* stop_processing: thread.join(timeout=2) returns, the thread having
\* exited or the two seconds having passed
StopJoin ==
    /\ stop_pc \in {"join_capture", "join_inference", "join_persistence"}
    /\ stop_pc' = CASE stop_pc = "join_capture" -> "join_inference"
                    [] stop_pc = "join_inference" -> "join_persistence"
                    [] stop_pc = "join_persistence" -> "clear_frames"
    /\ UNCHANGED <<now, sync_vars, engine_vars, pipe_vars, retry_vars,
                   session_vars, stat_vars, call_vars, processing_active, threads, starts, last_call,
                   stop_returned>>

\* stop_processing: while not frame_queue.empty(): frame_queue.get_nowait()
StopClearFrames ==
    /\ stop_pc = "clear_frames"
    /\ IF frame_queue # <<>>
       THEN /\ frame_queue' = QueueGet(frame_queue)
            /\ UNCHANGED stop_pc
       ELSE /\ stop_pc' = "clear_results"
            /\ UNCHANGED frame_queue
    /\ UNCHANGED <<now, sync_vars, engine_vars, retry_vars, session_vars, stat_vars, call_vars,
                   ai_processing_queue, pipe_locals, processing_active,
                   threads, starts, last_call, stop_returned>>

\* stop_processing: while not ai_processing_queue.empty():
\* ai_processing_queue.get_nowait(); then return True
StopClearResults ==
    /\ stop_pc = "clear_results"
    /\ IF ai_processing_queue # <<>>
       THEN /\ ai_processing_queue' = QueueGet(ai_processing_queue)
            /\ UNCHANGED <<stop_pc, last_call, stop_returned>>
       ELSE /\ stop_pc' = "idle"
            /\ last_call' = <<"stop", TRUE>>
            /\ stop_returned' = TRUE
            /\ UNCHANGED ai_processing_queue
    /\ UNCHANGED <<now, sync_vars, engine_vars, retry_vars, session_vars, stat_vars, call_vars,
                   frame_queue, pipe_locals, processing_active, threads,
                   starts>>

\* every stage loop: while processing_active
ThreadTest(t) ==
    /\ threads[t] = "test"
    /\ threads' = [threads EXCEPT ![t] =
                      IF processing_active THEN "body" ELSE "exited"]
    /\ UNCHANGED <<now, sync_vars, engine_vars, pipe_vars, retry_vars,
                   session_vars, stat_vars, call_vars, processing_active, starts, stop_pc, last_call,
                   stop_returned>>

\* frame_capture_loop: one iteration; a pair, when the synchronizer
\* returned one, is pushed on frame_queue
CaptureIterate(t, got_pair) ==
    /\ t[1] = "capture"
    /\ threads[t] = "body"
    /\ frame_queue' = IF got_pair
                      THEN PushDropOldest(frame_queue, SomeItem, frame_queue_maxsize)
                      ELSE frame_queue
    /\ threads' = [threads EXCEPT ![t] = "test"]
    /\ UNCHANGED <<now, sync_vars, engine_vars, retry_vars, session_vars, stat_vars, call_vars,
                   ai_processing_queue, pipe_locals, processing_active, starts,
                   stop_pc, last_call, stop_returned>>

\* ai_processing_loop: frame_queue.get(timeout=1.0)
InferenceGet(t) ==
    /\ t[1] = "inference"
    /\ threads[t] = "body"
    /\ IF frame_queue # <<>>
       THEN /\ frame_queue' = QueueGet(frame_queue)
            /\ threads' = [threads EXCEPT ![t] = "process"]
       ELSE /\ threads' = [threads EXCEPT ![t] = AfterEmptyGet]
            /\ UNCHANGED frame_queue
    /\ UNCHANGED <<now, sync_vars, engine_vars, retry_vars, session_vars, stat_vars, call_vars,
                   ai_processing_queue, pipe_locals, processing_active, starts,
                   stop_pc, last_call, stop_returned>>

\* ai_processing_loop: the detector and the recognizer return; a result is
\* put on ai_processing_queue when there is a violation
InferenceFinish(t, has_violation) ==
    /\ t[1] = "inference"
    /\ threads[t] = "process"
    /\ ai_processing_queue' =
          IF has_violation THEN AiQueueAfterPut(ai_processing_queue, SomeItem)
          ELSE ai_processing_queue
    /\ threads' = [threads EXCEPT ![t] = "test"]
    /\ UNCHANGED <<now, sync_vars, engine_vars, retry_vars, session_vars, stat_vars, call_vars,
                   frame_queue, pipe_locals, processing_active, starts,
                   stop_pc, last_call, stop_returned>>

\* logging_loop: ai_processing_queue.get(timeout=1.0)
PersistenceGet(t) ==
    /\ t[1] = "persistence"
    /\ threads[t] = "body"
    /\ IF ai_processing_queue # <<>>
       THEN /\ ai_processing_queue' = QueueGet(ai_processing_queue)
            /\ threads' = [threads EXCEPT ![t] = "process"]
       ELSE /\ threads' = [threads EXCEPT ![t] = AfterEmptyGet]
            /\ UNCHANGED ai_processing_queue
    /\ UNCHANGED <<now, sync_vars, engine_vars, retry_vars, session_vars, stat_vars, call_vars,
                   frame_queue, pipe_locals, processing_active, starts,
                   stop_pc, last_call, stop_returned>>

\* logging_loop: the decision, the evidence capture and the store return
PersistenceFinish(t) ==
    /\ t[1] = "persistence"
    /\ threads[t] = "process"
    /\ threads' = [threads EXCEPT ![t] = "test"]
    /\ UNCHANGED <<now, sync_vars, engine_vars, pipe_vars, retry_vars,
                   session_vars, stat_vars, call_vars, processing_active, starts, stop_pc, last_call,
                   stop_returned>>

\* a step of a stage thread
ThreadStep(t) ==
    \/ ThreadTest(t)
    \/ \E got_pair \in BOOLEAN : CaptureIterate(t, got_pair)
    \/ InferenceGet(t)
    \/ \E has_violation \in BOOLEAN : InferenceFinish(t, has_violation)
    \/ PersistenceGet(t)
    \/ PersistenceFinish(t)

InitLifecycle ==
    /\ processing_active = FALSE
    /\ threads = [t \in Threads |-> "none"]
    /\ starts = 0
    /\ stop_pc = "idle"
    /\ last_call = <<"none", FALSE>>
    /\ stop_returned = FALSE

(***************************************************************************)
(* The synchronizer's counters and its lock, statement by statement        *)
(* (backend/modules/frame_sync.py)                                         *)
(***************************************************************************)
\* counter updates and resets over a run
MaxStatOps == 4

\* two threads calling get_synchronized_pair, one calling reset_stats
Readers == {"reader1", "reader2"}

StatThreads == Readers \cup {"client"}

\* the counters get_synchronized_pair updates inside `with self.lock`
LockedCounters == {"pairs_created", "wide_only", "dropped_old_frames"}

\* the dict reset_stats assigns to self.stats
ZeroStats ==
    [pairs_created |-> 0, wide_only |-> 0, sync_failures |-> 0,
     dropped_old_frames |-> 0]

\* no value loaded
NoRef == [id |-> -1, value |-> 0]

\* the operations on the counters done so far
StatOps ==
    stats.pairs_created + stats.wide_only + stats.dropped_old_frames
      + timeouts_returned + resets

\* `with self.lock:` entered by a reader's pass or by reset_stats
StatAcquire(t) ==
    /\ stat_pc[t] = "idle"
    /\ lock_owner = "free"
    /\ StatOps + Cardinality({u \in StatThreads : stat_pc[u] # "idle"}) < MaxStatOps
    /\ lock_owner' = t
    /\ stat_pc' = [stat_pc EXCEPT ![t] = "locked"]
    /\ UNCHANGED <<now, sync_vars, engine_vars, pipe_vars, retry_vars,
                   session_vars, life_vars, call_vars, stats, stats_id, stat_ref,
                   timeouts_returned, resets>>

\* get_synchronized_pair inside the with block: a counter is incremented
\* (cleanup, synchronized pair, degraded pair), and the block is left
LockedIncrement(t, counter) ==
    /\ t \in Readers
    /\ stat_pc[t] = "locked"
    /\ stats' = [stats EXCEPT ![counter] = @ + 1]
    /\ lock_owner' = "free"
    /\ stat_pc' = [stat_pc EXCEPT ![t] = "idle"]
    /\ UNCHANGED <<now, sync_vars, engine_vars, pipe_vars, retry_vars,
                   session_vars, life_vars, call_vars, stats_id, stat_ref,
                   timeouts_returned, resets>>

\* get_synchronized_pair inside the with block: a pass that changes no
\* counter, and the block is left
LockedPass(t) ==
    /\ t \in Readers
    /\ stat_pc[t] = "locked"
    /\ lock_owner' = "free"
    /\ stat_pc' = [stat_pc EXCEPT ![t] = "idle"]
    /\ UNCHANGED <<now, sync_vars, engine_vars, pipe_vars, retry_vars,
                   session_vars, life_vars, call_vars, stats, stats_id, stat_ref,
                   timeouts_returned, resets>>

\* reset_stats inside the with block: self.stats = {...}, a new dict
ResetStats(t) ==
    /\ t = "client"
    /\ stat_pc[t] = "locked"
    /\ stats' = ZeroStats
    /\ stats_id' = stats_id + 1
    /\ resets' = resets + 1
    /\ lock_owner' = "free"
    /\ stat_pc' = [stat_pc EXCEPT ![t] = "idle"]
    /\ UNCHANGED <<now, sync_vars, engine_vars, pipe_vars, retry_vars,
                   session_vars, life_vars, call_vars, stat_ref, timeouts_returned>>

\* get_synchronized_pair after the loop: self.stats['sync_failures'] += 1,
\* first half: the dict and the item are loaded
TimeoutLoad(t) ==
    /\ t \in Readers
    /\ stat_pc[t] = "idle"
    /\ StatOps + Cardinality({u \in StatThreads : stat_pc[u] # "idle"}) < MaxStatOps
    /\ stat_ref' = [stat_ref EXCEPT ![t] =
                        [id |-> stats_id, value |-> stats.sync_failures]]
    /\ stat_pc' = [stat_pc EXCEPT ![t] = "loaded"]
    /\ UNCHANGED <<now, sync_vars, engine_vars, pipe_vars, retry_vars,
                   session_vars, life_vars, call_vars, stats, stats_id, lock_owner,
                   timeouts_returned, resets>>

\* second half: the sum is stored in the dict that was loaded, which is
\* self.stats unless reset_stats has replaced it; then return None
TimeoutStore(t) ==
    /\ t \in Readers
    /\ stat_pc[t] = "loaded"
    /\ stats' = IF stat_ref[t].id = stats_id
                THEN [stats EXCEPT !.sync_failures = stat_ref[t].value + 1]
                ELSE stats
    /\ stat_ref' = [stat_ref EXCEPT ![t] = NoRef]
    /\ timeouts_returned' = timeouts_returned + 1
    /\ stat_pc' = [stat_pc EXCEPT ![t] = "idle"]
    /\ UNCHANGED <<now, sync_vars, engine_vars, pipe_vars, retry_vars,
                   session_vars, life_vars, call_vars, stats_id, lock_owner, resets>>

InitStats ==
    /\ stats = ZeroStats
    /\ stats_id = 0
    /\ lock_owner = "free"
    /\ stat_pc = [t \in StatThreads |-> "idle"]
    /\ stat_ref = [t \in Readers |-> NoRef]
    /\ timeouts_returned = 0
    /\ resets = 0

(***************************************************************************)
(* process_detection called from several threads, gate by gate             *)
(* (backend/modules/violation_logic.py)                                    *)
(***************************************************************************)
\* the threads calling process_detection
Callers == {"caller1", "caller2"}

\* the detections the calling threads hand in: one category below and at
\* its rule's threshold, with one plate number and without
CallDetections ==
    {det \in Detections : /\ det.violation_type = "no_helmet"
                          /\ det.plate_number \in {"ABC-1234", NoPlate}}

\* process_detection: count the detection and evaluate the rules
CallRules(c, det) ==
    /\ call_pc[c] = "idle"
    /\ vm_stats.total_detections < MaxDetections
    /\ call_detection' = [call_detection EXCEPT ![c] = det]
    /\ vm_stats' = [vm_stats EXCEPT !.total_detections = @ + 1]
    /\ IF _evaluate_rules(det) = 0
       THEN /\ call_decision' = [call_decision EXCEPT ![c] =
                                    Decision(FALSE, "No rule matched", NoCode, "None")]
            /\ UNCHANGED call_pc
       ELSE /\ call_pc' = [call_pc EXCEPT ![c] = "verify"]
            /\ UNCHANGED call_decision
    /\ UNCHANGED <<now, sync_vars, pipe_vars, retry_vars, session_vars,
                   life_vars, stat_vars, detection_buffer, recent_violations,
                   db, log_pc, detection, decision, violation_id>>

\* process_detection: self.verifier.add_detection(tracking_key)
CallVerify(c) ==
    /\ call_pc[c] = "verify"
    /\ LET tracking_key == TrackingKey(call_detection[c])
           buffers == AddDetection(detection_buffer, tracking_key, now)
       IN  /\ detection_buffer' = buffers
           /\ IF ~Verified(buffers, tracking_key)
              THEN /\ vm_stats' = [vm_stats EXCEPT !.verification_pending = @ + 1]
                   /\ call_decision' = [call_decision EXCEPT ![c] =
                          Decision(FALSE, "Verification pending", NoCode, "None")]
                   /\ call_pc' = [call_pc EXCEPT ![c] = "idle"]
              ELSE /\ call_pc' = [call_pc EXCEPT ![c] = "dedup"]
                   /\ UNCHANGED <<vm_stats, call_decision>>
    /\ UNCHANGED <<now, sync_vars, pipe_vars, retry_vars, session_vars,
                   life_vars, stat_vars, recent_violations, db, log_pc,
                   detection, decision, violation_id, call_detection>>

\* process_detection: the duplicate check and the return that follows it
CallDedup(c) ==
    /\ call_pc[c] = "dedup"
    /\ LET det == call_detection[c]
           tracking_key == TrackingKey(det)
       IN  \E query_ok \in BOOLEAN :
               /\ recent_violations' = CacheAfterCheck(det.plate_number, query_ok)
               /\ IF det.plate_number # NoPlate
                     /\ is_duplicate(det.plate_number, query_ok)
                  THEN /\ vm_stats' = [vm_stats EXCEPT !.duplicates_prevented = @ + 1]
                       /\ detection_buffer' = Reset(detection_buffer, tracking_key)
                       /\ call_decision' = [call_decision EXCEPT ![c] =
                              Decision(FALSE, "Duplicate", NoCode, "None")]
                  ELSE /\ \E code \in Codes :
                            call_decision' = [call_decision EXCEPT ![c] =
                               Decision(TRUE, "Violation confirmed", code,
                                        Rules[_evaluate_rules(det)].violation_type)]
                       /\ UNCHANGED <<vm_stats, detection_buffer>>
    /\ call_pc' = [call_pc EXCEPT ![c] = "idle"]
    /\ UNCHANGED <<now, sync_vars, pipe_vars, retry_vars, session_vars,
                   life_vars, stat_vars, db, log_pc, detection, decision,
                   violation_id, call_detection>>

InitCalls ==
    /\ call_pc = [c \in Callers |-> "idle"]
    /\ call_detection = [c \in Callers |-> NoDetection]
    /\ call_decision = [c \in Callers |-> NoDecision]

Init ==
    /\ now = 0
    /\ InitSync
    /\ InitEngine
    /\ InitPipeline
    /\ InitRetry
    /\ InitSession
    /\ InitLifecycle
    /\ InitStats
    /\ InitCalls

NextSync ==
    \/ Tick
    \/ \E camera_type \in {"wide_angle", "plate"} : AddFrame(camera_type)
    \/ \E t \in Timeouts : CallGet(t)
    \/ LoopTest
    \/ Poll
    \/ WakeLocked
    \/ Wake

\* the synchronizer never touches the store: its runs start from the empty
\* table
InitSyncRun == Init /\ db = <<>>

SpecSync == InitSyncRun /\ [][NextSync]_vars

\* time passes, and the reader thread is scheduled and gets the lock it
\* alone can hold across steps
SpecSyncFair ==
    /\ InitSyncRun
    /\ [][NextSync]_vars
    /\ WF_vars(Tick)
    /\ WF_vars(LoopTest)
    /\ WF_vars(Poll)
    /\ WF_vars(WakeLocked)
    /\ WF_vars(Wake)

NextEngine ==
    \/ Tick
    \/ \E det \in Detections : ProcessDetection(det)
    \/ EvidenceError
    \/ \E ok \in BOOLEAN : Save(ok)
    \/ MarkLogged

SpecEngine == Init /\ [][NextEngine]_vars

NextPipeline ==
    \/ CaptureNoPair
    \/ CapturePut
    \/ CaptureEvict
    \/ CaptureReput
    \/ AiGet
    \/ \E has_violation \in BOOLEAN : AiProcess(has_violation)
    \/ LoggingGet
    \/ LoggingProcess
    \/ CaptureRaises
    \/ AiRaises
    \/ LoggingRaises
    \/ \E stage \in {"capture", "inference", "persistence"} : Handler(stage)

SpecPipeline == Init /\ [][NextPipeline]_vars

NextRetry ==
    \/ \E func \in WrappedFunctions : RetryCall(func)
    \/ \E db_outcome \in DbOutcomes : Invoke(db_outcome)
    \/ Sleep

SpecRetry == Init /\ [][NextRetry]_vars

NextSession ==
    \/ \E s \in Sessions : SessionEnter(s)
    \/ \E s \in Sessions, outcome \in SessionOutcomes : SessionBody(s, outcome)
    \/ \E s \in Sessions, outcome \in SessionOutcomes : SessionCommit(s, outcome)
    \/ \E s \in Sessions : SessionExcept(s)
    \/ \E s \in Sessions : SessionFinally(s)

SpecSession == Init /\ [][NextSession]_vars

NextStats ==
    \/ \E t \in StatThreads : StatAcquire(t)
    \/ \E t \in Readers : \E counter \in LockedCounters : LockedIncrement(t, counter)
    \/ \E t \in Readers : LockedPass(t)
    \/ ResetStats("client")
    \/ \E t \in Readers : TimeoutLoad(t)
    \/ \E t \in Readers : TimeoutStore(t)

SpecStats == InitSyncRun /\ [][NextStats]_vars

NextCalls ==
    \/ Tick
    \/ \E c \in Callers : \E det \in CallDetections : CallRules(c, det)
    \/ \E c \in Callers : CallVerify(c)
    \/ \E c \in Callers : CallDedup(c)

SpecCalls == Init /\ [][NextCalls]_vars

NextLifecycle ==
    \/ StartRefused
    \/ StartProcessing
    \/ StopBegin
    \/ StopJoin
    \/ StopClearFrames
    \/ StopClearResults
    \/ \E t \in Threads : ThreadStep(t)

SpecLifecycle == InitSyncRun /\ [][NextLifecycle]_vars

\* every started thread is scheduled, and the calls it makes return
SpecLifecycleFair ==
    /\ InitSyncRun
    /\ [][NextLifecycle]_vars
    /\ \A t \in Threads : WF_vars(ThreadStep(t))

(***************************************************************************)
(* Claims about the synchronizer, checked under SpecSync                   *)
(***************************************************************************)
\* the step in which get_synchronized_pair examines the buffers
PollStep == sync_pc = "poll" /\ sync_pc' # "poll"

\* the frames of a buffer that have not exceeded the max age
NotExpired(buffer) ==
    SelectSeq(buffer, LAMBDA f : (now - f.timestamp) <= BUFFER_MAX_AGE)

\* the frames of a buffer within tolerance of a timestamp
WithinTolerance(buffer, ts) ==
    {i \in DOMAIN buffer : Abs(buffer[i].timestamp - ts) <= sync_tolerance}

\* C1: every FramePair returned with is_synchronized = TRUE pairs a
\* wide-angle frame with a plate frame whose capture timestamps differ by at
\* most sync_tolerance.
C1_SyncPairWithinTolerance ==
    \A i \in DOMAIN delivered :
        delivered[i].is_synchronized =>
            /\ delivered[i].wide_frame.camera_type = "wide_angle"
            /\ delivered[i].plate_frame.camera_type = "plate"
            /\ Abs(delivered[i].wide_frame.timestamp
                   - delivered[i].plate_frame.timestamp) <= sync_tolerance

\* a synchronized pair was returned whose frames are exactly sync_tolerance
\* apart, while an unmatched plate frame further away stayed behind
C1_Witness ==
    /\ pair.kind = "pair"
    /\ pair.is_synchronized
    /\ Abs(pair.wide_frame.timestamp - pair.plate_frame.timestamp) = sync_tolerance
    /\ \E i \in DOMAIN plate_buffer :
          Abs(plate_buffer[i].timestamp - pair.wide_frame.timestamp) > sync_tolerance

\* C8: no frame is contained in more than one returned FramePair.
C8_NoFrameDeliveredTwice ==
    \A i, j \in DOMAIN delivered :
        i # j =>
            /\ delivered[i].wide_frame.id # delivered[j].wide_frame.id
            /\ (delivered[i].plate_frame # NoFrame
                  => delivered[i].plate_frame.id # delivered[j].plate_frame.id)

\* C9: when a poll examines the buffers and some unexpired plate frame is
\* within sync_tolerance of the newest (unexpired) wide-angle frame, the call
\* returns a synchronized pair built from that wide-angle frame.
C9_MatchIsReturned ==
    [][ (/\ PollStep
         /\ wide_buffer # <<>>
         /\ (now - Last(wide_buffer).timestamp) <= BUFFER_MAX_AGE
         /\ WithinTolerance(NotExpired(plate_buffer),
                            Last(wide_buffer).timestamp) # {})
        => (/\ sync_pc' = "idle"
            /\ pair'.kind = "pair"
            /\ pair'.is_synchronized
            /\ pair'.wide_frame = Last(wide_buffer)
            /\ pair'.plate_frame # NoFrame
            /\ delivered' = Append(delivered, pair')) ]_vars

\* a synchronized pair was returned whose plate frame was captured after
\* its wide-angle frame
C9_Witness ==
    /\ pair.kind = "pair"
    /\ pair.is_synchronized
    /\ pair.plate_frame.timestamp > pair.wide_frame.timestamp
    /\ sync_stats.pairs_created = 1

\* C10: when a poll finds no plate frame within tolerance of the newest
\* wide-angle frame, it returns a degraded pair exactly when the plate buffer
\* is empty or the wide-angle frame is older than the tolerance, removing
\* only that wide-angle frame; otherwise the poll produces no pair and
\* removes nothing.  Buffers are taken as examined, after age eviction.
C10_DegradedExactlyWhen ==
    [][ (/\ PollStep
         /\ NotExpired(wide_buffer) # <<>>
         /\ WithinTolerance(NotExpired(plate_buffer),
                            Last(wide_buffer).timestamp) = {})
        => LET wide == NotExpired(wide_buffer)
               plate == NotExpired(plate_buffer)
           IN  IF plate = <<>> \/ (now - Last(wide).timestamp) > sync_tolerance
               THEN /\ pair' = FramePair(Last(wide), NoFrame,
                                         Last(wide).timestamp, FALSE)
                    /\ delivered' = Append(delivered, pair')
                    /\ wide_buffer' = Front(wide)
                    /\ plate_buffer' = plate
                    /\ sync_pc' = "idle"
               ELSE /\ pair' = pair
                    /\ delivered' = delivered
                    /\ wide_buffer' = wide
                    /\ plate_buffer' = plate
                    /\ sync_pc' = "sleep" ]_vars

\* a degraded pair was returned although the plate buffer holds a frame:
\* the wide-angle frame had aged past the tolerance
C10_Witness ==
    /\ pair.kind = "pair"
    /\ ~pair.is_synchronized
    /\ pair.plate_frame = NoFrame
    /\ plate_buffer # <<>>
    /\ sync_stats.wide_only = 1

(***************************************************************************)
(* Claims about the decision engine, checked under SpecEngine              *)
(***************************************************************************)
\* a step in which process_detection handles detection' and returns decision'
ProcessStep ==
    /\ log_pc = "get"
    /\ vm_stats'.total_detections = vm_stats.total_detections + 1

\* some configured rule has the detection's category and a threshold the
\* confidence reaches
SomeRuleMatches(det) ==
    \E i \in DOMAIN Rules :
        /\ Rules[i].violation_type = det.violation_type
        /\ det.confidence >= Rules[i].min_confidence

\* the tracking key of a detection: its plate number, or the camera's key
KeyOf(det) ==
    IF det.plate_number = NoPlate THEN "NO_PLATE_CAM-WA-001"
    ELSE det.plate_number

\* the history of a key once the current time is appended to it: the newest
\* required_frames timestamps
HistoryAfter(key) ==
    LET old == IF key \in DOMAIN detection_buffer
               THEN detection_buffer[key] ELSE <<>>
        all == Append(old, now)
    IN  IF Len(all) > required_frames
        THEN SubSeq(all, Len(all) - required_frames + 1, Len(all))
        ELSE all

\* the verification gate is passed on that history
GatePassed(key) ==
    LET h == HistoryAfter(key)
    IN  Len(h) = required_frames /\ h[Len(h)] - h[1] < verification_window

\* the plate was marked as logged less than duplicate_window ago
MarkedInWindow(plate_number) ==
    /\ plate_number # NoPlate
    /\ plate_number \in DOMAIN recent_violations
    /\ now - recent_violations[plate_number] < duplicate_window

\* the rows this run persisted for a plate
RunRows(plate_number) ==
    {i \in DOMAIN db : db[i].inserted_by = "run"
                        /\ db[i].plate_number = plate_number}

\* C2: no two records persisted by a run for the same plate number are less
\* than duplicate_window apart, and while a plate is marked as logged inside
\* the window every decision for it has should_log = FALSE.
C2_NoTwoRecordsInWindow ==
    /\ [](\A p \in PlateNumbers \ {NoPlate} :
            \A i, j \in RunRows(p) :
                i < j => db[j].violation_datetime - db[i].violation_datetime
                            >= duplicate_window)
    /\ [][ (ProcessStep /\ MarkedInWindow(detection'.plate_number))
           => ~decision'.should_log ]_vars

\* the run has persisted two records for one plate number
C2_Witness ==
    \E p \in PlateNumbers \ {NoPlate} : Cardinality(RunRows(p)) >= 2

\* C3 as claimed: once a violation of this run for a plate is marked as
\* logged, every process_detection call for that plate inside the window is
\* rejected with the duplicate reason (stated here for the detections that
\* match a rule only).
C3_AlwaysDuplicateReason ==
    [][ (/\ ProcessStep
         /\ MarkedInWindow(detection'.plate_number)
         /\ RunRows(detection'.plate_number) # {}
         /\ SomeRuleMatches(detection'))
        => (~decision'.should_log /\ decision'.reason = "Duplicate") ]_vars

\* C3 amended: while a plate is marked as logged inside the window, every
\* process_detection call for it returns should_log = FALSE; the reason is
\* the duplicate reason when the detection matches a rule and passes the
\* verification gate, "No rule matched" when it matches no rule and the
\* verification-pending reason when the gate is not passed.
C3_SuppressedInWindow ==
    [][ (ProcessStep /\ MarkedInWindow(detection'.plate_number))
        => /\ ~decision'.should_log
           /\ decision'.reason =
                IF ~SomeRuleMatches(detection') THEN "No rule matched"
                ELSE IF ~GatePassed(KeyOf(detection')) THEN "Verification pending"
                ELSE "Duplicate" ]_vars

\* a rule-matching detection for a plate marked inside the window was
\* answered with the verification-pending reason
C3_Witness ==
    /\ log_pc = "get"
    /\ MarkedInWindow(detection.plate_number)
    /\ RunRows(detection.plate_number) # {}
    /\ SomeRuleMatches(detection)
    /\ decision.reason = "Verification pending"
    /\ vm_stats.duplicates_prevented >= 1

\* C4: a detection for a plate whose most recent persisted record is older
\* than duplicate_window is never rejected as a duplicate, and is logged
\* once it matches a rule and passes the verification gate.
C4_SuppressionEndsWithWindow ==
    [][ (/\ ProcessStep
         /\ detection'.plate_number # NoPlate
         /\ \E i \in DOMAIN db : db[i].plate_number = detection'.plate_number
         /\ \A i \in DOMAIN db :
               db[i].plate_number = detection'.plate_number
                  => now - db[i].violation_datetime > duplicate_window)
        => /\ decision'.reason # "Duplicate"
           /\ (SomeRuleMatches(detection') /\ GatePassed(KeyOf(detection'))
                  => decision'.should_log) ]_vars

\* C5: a rule-matching detection passes the verification gate iff its key's
\* history, once the current time is appended, holds required_frames
\* timestamps spanning less than the verification window; otherwise the
\* decision is should_log = FALSE with the verification-pending reason and
\* the history is kept.  A key with fewer than required_frames - 1 earlier
\* timestamps cannot pass.
C5_VerificationGate ==
    [][ (ProcessStep /\ SomeRuleMatches(detection'))
        => LET key == KeyOf(detection')
           IN  /\ IF GatePassed(key)
                  THEN decision'.reason \in {"Duplicate", "Violation confirmed"}
                  ELSE /\ decision' = Decision(FALSE, "Verification pending",
                                               NoCode, "None")
                       /\ key \in DOMAIN detection_buffer'
                       /\ detection_buffer'[key] = HistoryAfter(key)
               /\ (Len(HistoryAfter(key)) < required_frames
                      => decision'.reason = "Verification pending") ]_vars

\* a rule-matching detection filled its key's history, but the history spans
\* the whole verification window or more and the decision is pending
C5_Witness ==
    /\ SomeRuleMatches(detection)
    /\ decision.reason = "Verification pending"
    /\ KeyOf(detection) \in DOMAIN detection_buffer
    /\ LET h == detection_buffer[KeyOf(detection)]
       IN  /\ Len(h) = required_frames
           /\ h[Len(h)] - h[1] >= verification_window

\* C6: process_detection for a key leaves the history of every other key as
\* it was, and a detection passes the verification gate only if its own key
\* already held required_frames - 1 timestamps.
C6_HistoriesIsolated ==
    [][ ProcessStep
        => LET key == KeyOf(detection')
           IN  /\ \A k \in (DOMAIN detection_buffer \cup DOMAIN detection_buffer')
                              \ {key} :
                      /\ k \in DOMAIN detection_buffer
                      /\ k \in DOMAIN detection_buffer'
                      /\ detection_buffer'[k] = detection_buffer[k]
               /\ (decision'.reason \in {"Duplicate", "Violation confirmed"}
                      => /\ key \in DOMAIN detection_buffer
                         /\ Len(detection_buffer[key]) >= required_frames - 1) ]_vars

\* another key holds a full history while the detection just processed, the
\* first of its own key, is pending
C6_Witness ==
    /\ decision.reason = "Verification pending"
    /\ KeyOf(detection) \in DOMAIN detection_buffer
    /\ Len(detection_buffer[KeyOf(detection)]) = 1
    /\ \E k \in DOMAIN detection_buffer \ {KeyOf(detection)} :
          /\ Len(detection_buffer[k]) = required_frames
          /\ detection_buffer[k][required_frames] = now

\* C7: should_log = TRUE only for a detection matching some rule (category
\* equal, confidence at or above the threshold); a detection matching no
\* rule gets should_log = FALSE with reason "No rule matched".
C7_RuleGate ==
    /\ decision.should_log => SomeRuleMatches(detection)
    /\ (detection # NoDetection /\ ~SomeRuleMatches(detection))
          => decision = Decision(FALSE, "No rule matched", NoCode, "None")

\* a no_helmet detection of confidence 0.59 was rejected for matching no
\* rule although its key's history is full and fresh
C7_Witness ==
    /\ detection.violation_type = "no_helmet"
    /\ detection.confidence = 59
    /\ decision.reason = "No rule matched"
    /\ KeyOf(detection) \in DOMAIN detection_buffer
    /\ LET h == detection_buffer[KeyOf(detection)]
       IN  /\ Len(h) = required_frames
           /\ h[Len(h)] = now
           /\ h[Len(h)] - h[1] < verification_window

\* C11: a detection without a plate number is never rejected with the
\* duplicate reason; process_detection leaves the dedup cache and the
\* duplicate counter as they were for it, whatever the cache and the store
\* hold, and it is logged as soon as it matches a rule and passes the
\* verification gate.
C11_NoPlateNeverDuplicate ==
    [][ (ProcessStep /\ detection'.plate_number = NoPlate)
        => /\ decision'.reason # "Duplicate"
           /\ recent_violations' = recent_violations
           /\ vm_stats'.duplicates_prevented = vm_stats.duplicates_prevented
           /\ (SomeRuleMatches(detection') /\ GatePassed(KeyOf(detection'))
                  => /\ decision'.should_log
                     /\ log_pc' = "log") ]_vars

\* a detection without a plate number is authorized although this run
\* persisted a record without a plate number inside the duplicate window
C11_Witness ==
    /\ log_pc = "log"
    /\ detection.plate_number = NoPlate
    /\ decision.should_log
    /\ \E i \in RunRows(NoPlate) :
          now - db[i].violation_datetime < duplicate_window

\* the rows this run persisted
AllRunRows == {i \in DOMAIN db : db[i].inserted_by = "run"}

\* C12: log_violation touches the dedup cache and violations_logged only
\* after the repository returned an id: the save step itself changes
\* neither, a failed save (no id) ends the iteration with both unchanged,
\* and the marking step runs only with the id of the row just stored for
\* the detection; violations_logged never exceeds the rows persisted.
C12_MarkOnlyAfterSave ==
    /\ [](log_pc = "saved"
            => /\ violation_id # NoCode
               /\ violation_id \in AllRunRows
               /\ db[violation_id].plate_number = detection.plate_number)
    /\ [](vm_stats.violations_logged <= Cardinality(AllRunRows))
    /\ [][ (log_pc = "log" /\ log_pc' # "log")
           => /\ recent_violations' = recent_violations
              /\ vm_stats' = vm_stats
              /\ (violation_id' \in {NoCode, Unbound}
                     => log_pc' = "get" /\ db' = db) ]_vars
    /\ [][ (recent_violations' # recent_violations
              \/ vm_stats'.violations_logged # vm_stats.violations_logged)
           => (log_pc = "saved" \/ ProcessStep) ]_vars

\* the save of an authorized violation returned None, the cache holds no
\* entry for its plate, and the next detection for that plate (the only
\* plate seen so far) is authorized again
C12_Witness ==
    /\ log_pc = "log"
    /\ decision.should_log
    /\ detection.plate_number # NoPlate
    /\ detection.plate_number \notin DOMAIN recent_violations
    /\ violation_id = NoCode
    /\ DOMAIN detection_buffer = {detection.plate_number}
    /\ vm_stats.total_detections > required_frames
    /\ vm_stats.violations_logged = 0
    /\ db = <<>>

\* the reasons process_detection returns
Reasons ==
    {"No rule matched", "Verification pending", "Duplicate",
     "Violation confirmed"}

\* C13: every process_detection call returns a decision, whatever the
\* detection and whether or not the store answers the duplicate query; the
\* decision carries one of the four reasons, and its violation_code is set
\* iff should_log is TRUE.
C13_DecisionShape ==
    /\ [](decision.should_log <=> decision.violation_code # NoCode)
    /\ []((log_pc = "get" /\ vm_stats.total_detections < MaxDetections)
            => \A det \in Detections : ENABLED ProcessDetection(det))
    /\ [][ ProcessStep
           => /\ decision'.reason \in Reasons
              /\ decision'.should_log = (decision'.reason = "Violation confirmed")
              /\ (decision'.should_log => decision'.violation_code \in Codes)
              /\ (~decision'.should_log =>
                     decision' = Decision(FALSE, decision'.reason, NoCode, "None"))
              /\ log_pc' = IF decision'.should_log THEN "log" ELSE "get" ]_vars

\* a detection for a plate with a stored record was processed while the
\* store is consulted, and came back rejected as a duplicate with no code
C13_Witness ==
    /\ log_pc = "get"
    /\ decision = Decision(FALSE, "Duplicate", NoCode, "None")
    /\ detection.plate_number # NoPlate
    /\ detection.plate_number \in DOMAIN recent_violations
    /\ \E i \in DOMAIN db : db[i].plate_number = detection.plate_number

(***************************************************************************)
(* Claims about the queues between the stages, checked under SpecPipeline  *)
(***************************************************************************)
\* the steps of the capture stage's overflow handler
EvictStep == capture_pc = "full" /\ capture_pc' # "full"
ReputStep == capture_pc = "reput" /\ capture_pc' # "reput"

\* C14: when the capture stage pushes a pair onto a full frame_queue and the
\* inference stage takes nothing in between (the queue is still full at the
\* eviction and one short of full at the second put), the eviction removes
\* exactly the oldest pair and the put appends the new pair: the queue then
\* holds frame_queue_maxsize pairs, the former second-oldest first, the new
\* pair last, in the order they had.
C14_CaptureDropOldest ==
    /\ [][ (EvictStep /\ Len(frame_queue) = frame_queue_maxsize)
           => /\ frame_queue' = Tail(frame_queue)
              /\ discarded' = Append(discarded,
                                     Discarded(Head(frame_queue), "capture"))
              /\ capture_pc' = "reput" ]_vars
    /\ [][ (ReputStep /\ Len(frame_queue) = frame_queue_maxsize - 1)
           => /\ frame_queue' = Append(frame_queue, capture_pair)
              /\ Len(frame_queue') = frame_queue_maxsize
              /\ discarded' = discarded ]_vars

\* the inference stage has taken nothing, the capture stage has pushed one
\* pair more than the queue holds, and the queue holds every pair but the
\* first one, in order, the newest last
C14_Witness ==
    /\ capture_pc = "loop"
    /\ ai_pc = "get" /\ ai_pair = NoItem
    /\ pairs_captured = frame_queue_maxsize + 1
    /\ discarded = << Discarded(1, "capture") >>
    /\ frame_queue = [i \in 1..frame_queue_maxsize |-> i + 1]

\* the step in which the inference stage finishes a pair with a violation
ResultStep ==
    /\ ai_pc = "process"
    /\ ai_pc' = "get"
    /\ (ai_processing_queue' # ai_processing_queue \/ discarded' # discarded)

\* C15: when the inference stage has a result and ai_processing_queue is
\* full, the result is dropped, the queue keeps its contents and order, and
\* the stage goes on to its next get.
C15_InferenceDropNewest ==
    [][ (ResultStep /\ Len(ai_processing_queue) = ai_queue_maxsize)
        => /\ ai_processing_queue' = ai_processing_queue
           /\ discarded' = Append(discarded, Discarded(ai_pair, "inference"))
           /\ processing_count' = processing_count + 1
           /\ ai_pc' = "get" ]_vars

\* the inference stage dropped the result of the third pair: the queue
\* still holds the results of the first two
C15_Witness ==
    /\ ai_pc = "get"
    /\ Len(ai_processing_queue) = ai_queue_maxsize
    /\ discarded # <<>>
    /\ discarded[Len(discarded)] = Discarded(ai_pair, "inference")
    /\ \A i \in DOMAIN ai_processing_queue : ai_processing_queue[i] < ai_pair

\* the counters the stages keep
PipelineCounters == {frame_count, processing_count}

\* C16: the number of items discarded because a queue was full can be read
\* from a counter of the stages.
C16_DropsCounted ==
    \E counter \in PipelineCounters : counter = Len(discarded)

(***************************************************************************)
(* Claims about the retry wrapper, checked under SpecRetry                 *)
(***************************************************************************)
\* what the wrapper saw of its i-th invocation of the function
Seen(i) == FuncOutcome(retry_func, invocations[i])

\* the number of invocations so far
Invoked == Len(invocations)

\* the sum of a sequence of delays
RECURSIVE Sum(_)
Sum(seq) == IF seq = <<>> THEN 0 ELSE Head(seq) + Sum(Tail(seq))

\* C17: when the function raises OperationalError k < max_retries times in
\* a row and then returns, the wrapper returns that value after exactly k+1
\* invocations and exactly k sleeps of base_delay * 2^0, ..., base_delay *
\* 2^(k-1), in that order (3 * base_delay in all for k = 2).
C17_TransientFailureRetried ==
    (/\ Invoked >= 1
     /\ \A i \in 1..(Invoked - 1) : Seen(i) = "OperationalError"
     /\ Seen(Invoked) \in {"value", "None"})
    => LET k == Invoked - 1
       IN  /\ k < retry_func.max_retries
           /\ retry_pc = "returned"
           /\ retry_result = Result("value", Seen(Invoked), "None")
           /\ sleeps = [i \in 1..k |-> retry_func.base_delay * (2 ^ (i - 1))]
           /\ (k = 2 => Sum(sleeps) = 3 * retry_func.base_delay)

\* execute_query returned its value on the third attempt, after two
\* connection errors and two sleeps
C17_Witness ==
    /\ retry_func.name = "execute_query"
    /\ retry_pc = "returned"
    /\ invocations = <<"OperationalError", "OperationalError", "ok">>
    /\ Len(sleeps) = 2

\* C18: when the function raises a database error that is not an
\* OperationalError, that invocation is the last one, no sleep follows it,
\* and the wrapper raises that same error; raised by the first invocation,
\* the function was invoked exactly once and the wrapper never slept.
C18_PermanentFailureNotRetried ==
    \A i \in 1..Invoked :
        Seen(i) = "IntegrityError"
        => /\ i = Invoked
           /\ Len(sleeps) = i - 1
           /\ retry_pc = "raised"
           /\ retry_result = Result("exception", "IntegrityError", "None")

\* a plain decorated function with retries to spare raised an integrity
\* error on its first invocation
C18_Witness ==
    /\ retry_func.name = "func"
    /\ retry_func.max_retries = MaxRetries
    /\ invocations = <<"IntegrityError">>
    /\ retry_pc = "raised"
    /\ sleeps = <<>>

\* C19: the function is never invoked more than max_retries times; when it
\* has raised OperationalError on each of max_retries invocations the
\* wrapper sleeps and then raises DatabaseRetryError, with the
\* OperationalError as its cause only, and returns no value; the wrapper
\* raises DatabaseRetryError in no other case.
C19_ExhaustionRaisesRetryError ==
    /\ Invoked <= retry_func.max_retries
    /\ (/\ Invoked = retry_func.max_retries
        /\ Invoked >= 1
        /\ \A i \in 1..Invoked : Seen(i) = "OperationalError")
       => \/ retry_pc = "sleep" /\ retry_result = NoResult
          \/ /\ retry_pc = "raised"
             /\ retry_result = Result("exception", "DatabaseRetryError",
                                      "OperationalError")
    /\ (retry_result.kind = "exception"
        /\ retry_result.value = "DatabaseRetryError")
       => /\ Invoked = retry_func.max_retries
          /\ \A i \in 1..Invoked : Seen(i) = "OperationalError"

\* execute_query (max_retries = 3) raised DatabaseRetryError after three
\* connection errors
C19_Witness ==
    /\ retry_func.name = "execute_query"
    /\ invocations = <<"OperationalError", "OperationalError",
                       "OperationalError">>
    /\ retry_pc = "raised"
    /\ retry_result.value = "DatabaseRetryError"

\* C20: when the first write of insert_violation fails with a connection
\* error, the call does not end before the insert has been attempted again.
C20_InsertRetried ==
    (/\ retry_func.name = "insert_violation"
     /\ retry_pc \in {"returned", "raised"}
     /\ Invoked >= 1
     /\ invocations[1] = "OperationalError")
    => Invoked >= 2

(***************************************************************************)
(* Claims about the session context manager, checked under SpecSession     *)
(***************************************************************************)
\* C21: every use of get_db_session that has left the context either
\* committed with no exception (the body and the commit both returned), or
\* rolled back and let the exception of the body or of the commit through
\* unchanged; the session was closed exactly once on the way out and is
\* never closed before, and no use both commits and rolls back.
C21_CommitOrRollbackThenClose ==
    \A s \in Sessions :
        LET u == sessions[s]
        IN  /\ u.closes = IF u.pc = "done" THEN 1 ELSE 0
            /\ u.pc = "done"
                 => \/ /\ u.tx = "committed"
                       /\ u.exception = "None"
                       /\ u.raised_by = "None"
                    \/ /\ u.tx = "rolled_back"
                       /\ u.exception \in SessionOutcomes \ {"ok"}
                       /\ u.raised_by \in {"body", "commit"}
            /\ (u.tx = "committed" => u.exception = "None")
            /\ (u.exception # "None" /\ u.pc \in {"finally", "done"}
                   => u.tx = "rolled_back")

\* one use has left the context after its commit raised and was rolled
\* back, another after an error outside SQLAlchemy in its body
C21_Witness ==
    \E s, t \in Sessions :
        /\ sessions[s] = Session("done", "rolled_back", "OperationalError",
                                 "commit", 1)
        /\ sessions[t] = Session("done", "rolled_back", "ValueError",
                                 "body", 1)

(***************************************************************************)
(* Claims about thread management, checked under SpecLifecycle             *)
(***************************************************************************)
\* no stage thread is running
AllExited == \A t \in Threads : threads[t] \in {"none", "exited"}

\* C22: if from some point on processing_active stays False, then from some
\* point on every stage thread has left its loop (none waits forever on an
\* empty queue), provided the threads are scheduled and their calls return.
C22_StagesExitAfterStop ==
    <>[](~processing_active) => <>[]AllExited

\* stop_processing has cleared the flag and the three threads that were
\* started have all left their loops
C22_Witness ==
    /\ ~processing_active
    /\ starts = 1
    /\ stop_pc # "idle"
    /\ \A stage \in Stages : threads[<<stage, 1>>] = "exited"

\* C23: from the return of stop_processing with True until the next
\* start_processing, frame_queue and ai_processing_queue are empty.
C23_QueuesEmptyAfterStop ==
    stop_returned => (frame_queue = <<>> /\ ai_processing_queue = <<>>)

(***************************************************************************)
(* Claims about the synchronizer's buffers, checked under SpecSync         *)
(***************************************************************************)
\* the step in which add_frame appends a frame
AddStep == frames_added' = frames_added + 1

\* the frame an add_frame step appended, and the buffer it went to
Added(camera_type) == TimestampedFrame(frames_added + 1, now, camera_type)

\* C24: neither buffer ever holds more than buffer_size frames; an add_frame
\* on a buffer at capacity discards exactly that buffer's oldest frame and
\* appends the new one, and add_frame leaves the other buffer unchanged.
C24_BufferBounded ==
    /\ [](Len(wide_buffer) <= buffer_size /\ Len(plate_buffer) <= buffer_size)
    /\ [][ AddStep =>
             \/ /\ wide_buffer' = IF Len(wide_buffer) = buffer_size
                                  THEN Append(Tail(wide_buffer), Added("wide_angle"))
                                  ELSE Append(wide_buffer, Added("wide_angle"))
                /\ plate_buffer' = plate_buffer
             \/ /\ plate_buffer' = IF Len(plate_buffer) = buffer_size
                                   THEN Append(Tail(plate_buffer), Added("plate"))
                                   ELSE Append(plate_buffer, Added("plate"))
                /\ wide_buffer' = wide_buffer ]_vars

\* more wide-angle frames were added than the buffer holds and none was
\* taken out by the reader: the buffer is full and its oldest frame is not
\* the first one added
C24_Witness ==
    /\ calls = 0
    /\ plate_buffer = <<>>
    /\ frames_added > buffer_size
    /\ Len(wide_buffer) = buffer_size
    /\ wide_buffer[1].id = frames_added - buffer_size + 1

\* a call of get_synchronized_pair is in progress
InCall == sync_pc # "idle"

\* the deadline of the call in progress lies within the modelled clock range
DeadlineInRange == start_time + timeout <= MaxTime

\* C25: every call of get_synchronized_pair returns; the loop test returns
\* None exactly when the timeout has elapsed, leaving both buffers as they
\* are; and a step of the call that delivers no pair removes from a buffer
\* only frames older than the max age.
C25_CallTerminates ==
    /\ (InCall /\ DeadlineInRange) ~> ~InCall
    /\ [][ (sync_pc = "while" /\ sync_pc' # "while")
             => IF (now - start_time) >= timeout
                THEN /\ sync_pc' = "idle"
                     /\ pair' = NoPair
                     /\ delivered' = delivered
                     /\ wide_buffer' = wide_buffer
                     /\ plate_buffer' = plate_buffer
                ELSE sync_pc' = "poll" ]_vars
    /\ [][ (InCall /\ delivered' = delivered /\ ~AddStep)
             => /\ wide_buffer' \in {wide_buffer, NotExpired(wide_buffer)}
                /\ plate_buffer' \in {plate_buffer, NotExpired(plate_buffer)} ]_vars

\* the only call so far polled, evicted a frame for age, could form no pair
\* from the frames left in both buffers, and returned None at its timeout
C25_Witness ==
    /\ sync_pc = "idle"
    /\ calls = 1
    /\ pair = NoPair
    /\ delivered = <<>>
    /\ sync_stats.sync_failures = 1
    /\ sync_stats.dropped_old_frames > 0
    /\ wide_buffer # <<>>
    /\ plate_buffer # <<>>

\* C26: every FramePair the synchronizer returns has is_synchronized true
\* exactly when it carries a plate frame, and its timestamp is the capture
\* timestamp of its wide-angle frame.
C26_PairShape ==
    \A i \in DOMAIN delivered :
        LET p == delivered[i]
        IN  /\ p.kind = "pair"
            /\ p.wide_frame # NoFrame
            /\ p.is_synchronized = (p.plate_frame # NoFrame)
            /\ p.timestamp = p.wide_frame.timestamp

\* a synchronized pair whose plate frame was captured at another time than
\* its wide-angle frame, and a degraded pair, have both been returned
C26_Witness ==
    /\ \E i \in DOMAIN delivered :
          /\ delivered[i].is_synchronized
          /\ delivered[i].plate_frame.timestamp # delivered[i].wide_frame.timestamp
    /\ \E i \in DOMAIN delivered :
          /\ ~delivered[i].is_synchronized
          /\ delivered[i].plate_frame = NoFrame

(***************************************************************************)
(* Claims about violation codes, checked under SpecEngine                  *)
(***************************************************************************)
\* C27: issued violation codes are unique: no two decisions with
\* should_log = TRUE made on the same day carry the same violation code.
\* Stated on a decision and the decision returned before it (the clock of a
\* run stays within one day).
C27_CodesUnique ==
    [][ (ProcessStep /\ decision.should_log /\ decision'.should_log)
          => decision'.violation_code # decision.violation_code ]_vars

(***************************************************************************)
(* Claims about the matching of frames, checked under SpecSync             *)
(***************************************************************************)
\* the position, among the plate frames within tolerance of ts, of the one
\* closest to ts, the earliest in buffer order among equally close ones
Closest(buffer, ts) ==
    CHOOSE i \in WithinTolerance(buffer, ts) :
        \A j \in WithinTolerance(buffer, ts) :
            \/ Abs(buffer[i].timestamp - ts) < Abs(buffer[j].timestamp - ts)
            \/ /\ Abs(buffer[i].timestamp - ts) = Abs(buffer[j].timestamp - ts)
               /\ i <= j

\* C28: when a poll looks for the match of the newest wide-angle frame, the
\* plate frame found is, among those within tolerance, the one with the
\* smallest absolute time difference, the earliest in buffer order among
\* equally close ones; no frame is found exactly when none is within
\* tolerance.  Buffers are taken as examined, after age eviction.
C28_ClosestMatch ==
    [][ (PollStep /\ NotExpired(wide_buffer) # <<>>)
          => LET plate == NotExpired(plate_buffer)
                 ts == Last(NotExpired(wide_buffer)).timestamp
             IN  /\ _find_matching_frame(ts, plate) = NoFrame
                      <=> WithinTolerance(plate, ts) = {}
                 /\ WithinTolerance(plate, ts) # {}
                      => /\ _find_matching_frame(ts, plate) = plate[Closest(plate, ts)]
                         /\ pair'.plate_frame = plate[Closest(plate, ts)]
                 /\ WithinTolerance(plate, ts) = {}
                      => (sync_pc' = "idle" => pair'.plate_frame = NoFrame) ]_vars

\* a pair was returned whose plate frame was the older of two plate frames
\* equally close to the wide-angle frame: the other one is still buffered
C28_Witness ==
    /\ sync_pc = "idle"
    /\ pair.kind = "pair"
    /\ pair.is_synchronized
    /\ sync_stats.pairs_created = 1
    /\ \E i \in DOMAIN plate_buffer :
          /\ plate_buffer[i].id > pair.plate_frame.id
          /\ Abs(plate_buffer[i].timestamp - pair.wide_frame.timestamp)
               = Abs(pair.plate_frame.timestamp - pair.wide_frame.timestamp)

(***************************************************************************)
(* Claims about add_frame and the lock, checked under SpecSync             *)
(***************************************************************************)
\* C29: immediately after add_frame returns, the buffer of the frame's
\* source contains no frame older than the max age.
C29_AddEvictsOld ==
    [][ AddStep =>
          /\ wide_buffer' # wide_buffer
               => \A i \in DOMAIN wide_buffer' :
                     (now' - wide_buffer'[i].timestamp) <= BUFFER_MAX_AGE
          /\ plate_buffer' # plate_buffer
               => \A i \in DOMAIN plate_buffer' :
                     (now' - plate_buffer'[i].timestamp) <= BUFFER_MAX_AGE ]_vars

\* C30: whenever get_synchronized_pair is sleeping between polls, the lock
\* is free, so that add_frame can take it.
C30_NoSleepUnderLock ==
    sync_pc \in {"sleep", "sleep_locked"} => sync_lock = "free"

(***************************************************************************)
(* Claims about the synchronizer's counters, checked under SpecStats       *)
(***************************************************************************)
\* C31: every mutation of the synchronizer's counters happens while the
\* synchronizer's lock is held, and no counter update is lost: as long as
\* reset_stats has not run, sync_failures counts the calls that have
\* returned None.
C31_CountersUnderLock ==
    /\ [][ (stats' # stats \/ stats_id' # stats_id) => lock_owner # "free" ]_vars
    /\ [](resets = 0 => stats.sync_failures = timeouts_returned)

(***************************************************************************)
(* Claims about the duplicate gate, checked under SpecEngine               *)
(***************************************************************************)
\* the store holds a record of the plate inside the duplicate window
StoredInWindow(plate_number) ==
    \E i \in DOMAIN db :
        /\ db[i].plate_number = plate_number
        /\ db[i].violation_datetime >= now - duplicate_window

\* a detection that reaches the duplicate check
ReachesDuplicateCheck(det) ==
    /\ det.plate_number # NoPlate
    /\ SomeRuleMatches(det)
    /\ GatePassed(KeyOf(det))

\* C32: a duplicate hit in the cache, or in the store when the store answers
\* (the cache entry is then refreshed), makes process_detection return
\* should_log = FALSE with duplicates_prevented incremented and the history
\* of the tracking key cleared, so that the key starts from an empty
\* history; the duplicate reason is returned for a hit only.
C32_DuplicateResetsHistory ==
    /\ [](decision.reason = "Duplicate"
            => KeyOf(detection) \notin DOMAIN detection_buffer)
    /\ [][ (ProcessStep /\ ReachesDuplicateCheck(detection'))
           => LET p == detection'.plate_number
                  hit == \/ CacheHit(p)
                         \/ /\ StoredInWindow(p)
                            /\ p \in DOMAIN recent_violations'
                            /\ recent_violations' # recent_violations
              IN  IF hit
                  THEN /\ decision' = Decision(FALSE, "Duplicate", NoCode, "None")
                       /\ vm_stats'.duplicates_prevented
                             = vm_stats.duplicates_prevented + 1
                       /\ KeyOf(detection') \notin DOMAIN detection_buffer'
                       /\ log_pc' = "get"
                  ELSE /\ decision'.should_log
                       /\ vm_stats'.duplicates_prevented
                             = vm_stats.duplicates_prevented ]_vars
    /\ [][ (ProcessStep /\ decision'.reason = "Duplicate")
           => /\ ReachesDuplicateCheck(detection')
              /\ (CacheHit(detection'.plate_number)
                    \/ StoredInWindow(detection'.plate_number)) ]_vars

\* a detection was rejected as a duplicate on the strength of the store's
\* record alone (nothing was logged by this run), and its key has no
\* history left
C32_Witness ==
    /\ log_pc = "get"
    /\ decision.reason = "Duplicate"
    /\ vm_stats.duplicates_prevented = 1
    /\ vm_stats.violations_logged = 0
    /\ AllRunRows = {}
    /\ recent_violations = (detection.plate_number :> now)
    /\ KeyOf(detection) \notin DOMAIN detection_buffer

(***************************************************************************)
(* Claims about concurrent process_detection calls, checked under SpecCalls*)
(***************************************************************************)
\* C33: the gate sequence of process_detection is atomic per call: while one
\* call is between its gates no other call is, and the per-key histories
\* and the dedup cache change only in a step of the one call that is inside.
C33_GatesAtomic ==
    /\ [](Cardinality({c \in Callers : call_pc[c] # "idle"}) <= 1)
    /\ [][ (detection_buffer' # detection_buffer
              \/ recent_violations' # recent_violations)
           => \A c \in Callers : call_pc[c] # "idle" => call_pc'[c] # call_pc[c] ]_vars

(***************************************************************************)
(* Claims about exceptions in the stage loops, checked under SpecPipeline  *)
(***************************************************************************)
\* C34: an exception raised inside an iteration of the capture, inference
\* or persistence loop is caught: the stage's except clause runs, leads back
\* to the start of the loop, and the stage can run its next iteration; no
\* stage ever leaves its loop.
C34_ExceptionCaught ==
    /\ [](/\ capture_pc \in {"loop", "full", "reput", "except"}
          /\ ai_pc \in {"get", "process", "except"}
          /\ logging_pc \in {"get", "process", "except"})
    /\ [](/\ capture_pc = "except" => ENABLED Handler("capture")
          /\ ai_pc = "except" => ENABLED Handler("inference")
          /\ logging_pc = "except" => ENABLED Handler("persistence"))
    /\ [][ /\ (capture_pc = "except" /\ capture_pc' # "except") => capture_pc' = "loop"
           /\ (ai_pc = "except" /\ ai_pc' # "except") => ai_pc' = "get"
           /\ (logging_pc = "except" /\ logging_pc' # "except")
                 => logging_pc' = "get" ]_vars
    /\ [](/\ capture_pc = "loop" => ENABLED CaptureNoPair
          /\ (ai_pc = "get" /\ frame_queue # <<>>) => ENABLED AiGet
          /\ (logging_pc = "get" /\ ai_processing_queue # <<>>) => ENABLED LoggingGet)

\* every stage has had an iteration ended by its except clause and is back
\* at the start of its loop; the inference stage raised on the first pair
\* and has since processed the second one
C34_Witness ==
    /\ \A stage \in Stages : errors[stage] = 1
    /\ capture_pc = "loop" /\ ai_pc = "get" /\ logging_pc = "get"
    /\ discarded = <<>>
    /\ ai_pair = 2
    /\ processing_count = 1

(***************************************************************************)
(* Claims about the number of stage threads, checked under SpecLifecycle   *)
(***************************************************************************)
\* the threads of a stage that are inside their loop
Live(stage) ==
    {t \in Threads : t[1] = stage /\ threads[t] \notin {"none", "exited"}}

\* C35: after any sequence of start_processing and stop_processing calls
\* there is at most one live capture loop, one live inference loop and one
\* live persistence loop.
C35_OneThreadPerStage ==
    \A stage \in Stages : Cardinality(Live(stage)) <= 1

(***************************************************************************)
(* Claims about the order of delivery, checked under SpecSync              *)
(***************************************************************************)
\* C36: the synchronizer delivers wide-angle frames in capture order: of two
\* returned FramePairs the later one carries the wide-angle frame captured
\* later, and its timestamp is not smaller (two frames captured within one
\* tick of the clock carry the same timestamp).
C36_DeliveredInCaptureOrder ==
    \A i, j \in DOMAIN delivered :
        i < j => /\ delivered[i].wide_frame.id < delivered[j].wide_frame.id
                 /\ delivered[i].timestamp <= delivered[j].timestamp

(***************************************************************************)
(* Claims about the evidence of a decision, checked under SpecEngine       *)
(***************************************************************************)
\* C37: a decision with should_log = TRUE consumes its verification
\* evidence: the process_detection call that follows it for the same
\* tracking key (one further detection, fewer than required_frames) does
\* not return should_log = TRUE.
C37_EvidenceConsumed ==
    [][ (/\ ProcessStep
         /\ decision.should_log
         /\ KeyOf(detection') = KeyOf(detection)
         /\ required_frames > 1)
        => ~decision'.should_log ]_vars

\* C38: the violation code persisted with a record is the code the decision
\* engine issued for that event (the code under which the evidence images
\* were saved).
C38_PersistedCodeIsIssuedCode ==
    [][ (log_pc = "log" /\ db' # db)
        => db'[Len(db')].violation_code = decision.violation_code ]_vars

\* C39: the capture stage never loses the newest pair: when the push step of
\* a capture cycle that obtained a pair completes, that pair is in the
\* inference queue, whatever the inference stage dequeued in between.
C39_NewestPairQueued ==
    [][ ((CapturePut \/ CaptureEvict \/ CaptureReput) /\ capture_pc' = "loop")
        => \E i \in DOMAIN frame_queue' : frame_queue'[i] = capture_pair' ]_vars

====
